---- MODULE Spec2Model ----
(***************************************************************************)
(* Per-turn dialogue state resolution of the sales assistant backend       *)
(* (backend/agent_pipeline.py, backend/session_store.py, backend/app.py).  *)
(*                                                                         *)
(* An utterance is modelled as the sequence of words of its normalized     *)
(* text (lower case, no diacritics, single blanks), so that                *)
(* normalize_text is the identity on the inputs used here.  A regular      *)
(* expression with \b word boundaries becomes a match of a word phrase at  *)
(* some position; a Python substring test ("su" in normalized) becomes a   *)
(* match that may start and end inside a word.                             *)
(***************************************************************************)
EXTENDS Integers, Sequences, FiniteSets, TLC

None == "None"

\* a local of the code: value is computed once and Rest reads it by name
Let(value, Rest(_)) == Rest(value)

(***************************************************************************)
(* Word level facts about the vocabulary.                                  *)
(***************************************************************************)

\* number of digits of a word made of digits only, 0 for any other word
DigitLen(w) ==
    CASE w = "004002" -> 6
      [] w = "002005" -> 6
      [] w = "100" -> 3
      [] OTHER -> 0

\* int(w) for a word made of digits only
NumValue(w) ==
    CASE w = "004002" -> 4002
      [] w = "002005" -> 2005
      [] w = "100" -> 100
      [] OTHER -> 0

\* D_CODE_RE  \bU[0-9A-Z]{4,}\b  (IGNORECASE)
IsDCode(w) == w \in {"u4167l00"}

\* P_CODE_RE  \bP[0-9A-Z]{4,}\b  (IGNORECASE)
IsPCode(w) == w \in {"p4167l00"}

\* a single word of the shape \d{3}a, and its amp label
AmpWord(w) ==
    CASE w = "350a" -> "350A"
      [] w = "500a" -> "500A"
      [] OTHER -> ""

\* <<k, w>>: keyword k occurs strictly inside word w
InfixPairs == {<<"su", "insulator">>, <<"tokin", "tokinarc">>, <<"k", "khong">>,
               <<"k", "ok">>, <<"co", "combo">>, <<"bo", "combo">>, <<"k", "tokin">>,
               <<"k", "tokinarc">>}
\* <<k, w>>: word w starts with keyword k
PrefixPairs == {<<"k", "khong">>, <<"tokin", "tokinarc">>, <<"co", "combo">>, <<"gi", "gia">>,
                <<"350", "350a">>, <<"500", "500a">>}
\* <<k, w>>: word w ends with keyword k
SuffixPairs == {<<"k", "ok">>, <<"bo", "combo">>}

Infix(k, w) == k = w \/ <<k, w>> \in InfixPairs \/ <<k, w>> \in PrefixPairs \/ <<k, w>> \in SuffixPairs
Prefix(k, w) == k = w \/ <<k, w>> \in PrefixPairs
Suffix(k, w) == k = w \/ <<k, w>> \in SuffixPairs

\* re.search(r"\b(p1|p2|...)\b", n): some phrase occurs as whole words
InWords(n, phrases) ==
    \E p \in phrases : \E i \in 1..Len(n) :
        /\ i + Len(p) - 1 <= Len(n)
        /\ \A j \in 1..Len(p) : n[i + j - 1] = p[j]

\* "phrase" in normalized: the phrase occurs as a substring of the text
InText(n, p) ==
    \E i \in 1..Len(n) :
        /\ i + Len(p) - 1 <= Len(n)
        /\ IF Len(p) = 1 THEN Infix(p[1], n[i])
           ELSE /\ Suffix(p[1], n[i])
                /\ Prefix(p[Len(p)], n[i + Len(p) - 1])
                /\ \A j \in 2..(Len(p) - 1) : n[i + j - 1] = p[j]

InTextAny(n, phrases) == \E p \in phrases : InText(n, p)

(***************************************************************************)
(* Keyword tables (agent_pipeline.py:51-227).                              *)
(***************************************************************************)
ASK_SELLING_SCOPE_PHRASES ==
    {<<"ban", "gi">>, <<"ban", "cai", "gi">>, <<"cong", "ty", "ban", "ban", "gi">>,
     <<"shop", "ban", "gi">>, <<"kinh", "doanh", "gi">>}
RELATED_QUERY_RE ==
    {<<"di", "kem">>, <<"phu", "kien">>, <<"linh", "kien">>, <<"kem", "theo">>, <<"di", "cung">>,
     <<"chup">>, <<"chup", "khi">>, <<"than", "giu">>, <<"cach", "dien">>, <<"su">>,
     <<"orifice">>, <<"insulator">>, <<"body">>}
BUNDLE_QUERY_RE ==
    {<<"kem", "theo">>, <<"di", "kem">>, <<"phu", "kien", "di", "kem">>, <<"phu", "kien", "kem", "theo">>}
TYPE_ANSWER_RE == {<<"tay">>, <<"robot">>, <<"robotic">>, <<"hand">>}
PRICE_RE ==
    {<<"gia">>, <<"chiet", "khau">>, <<"bao", "gia">>, <<"ton", "kho">>, <<"kho">>, <<"co", "san">>,
     <<"con", "hang">>, <<"co", "hang">>, <<"giao">>, <<"vat">>}
LISTING_RE ==
    {<<"liet", "ke">>, <<"danh", "sach">>, <<"list">>, <<"cac", "ma">>, <<"nhung", "ma">>, <<"ma", "nao">>}
CLOSE_INTENT_RE ==
    {<<"so", "luong">>, <<"dat", "hang">>, <<"don", "hang">>, <<"bao", "gia">>, <<"giao", "hang">>,
     <<"xuat", "hoa", "don">>, <<"xac", "nhan">>, <<"lay", "hang">>, <<"lay", "san", "pham">>, <<"combo">>}
INFO_ONLY_RE ==
    {<<"hang", "trung", "quoc">>, <<"hang", "tq">>, <<"xuat", "xu">>, <<"nguon", "goc">>,
     <<"hang", "nhat">>, <<"nhat", "ban">>, <<"chinh", "hang">>, <<"tokinarc">>,
     <<"co", "phai", "tokinarc">>, <<"hang", "that">>}
PRODUCT_INFO_RE ==
    {<<"thong", "tin", "san", "pham">>, <<"thong", "so">>, <<"cho", "xem">>, <<"xem", "thong", "tin">>,
     <<"xem", "thong", "so">>, <<"xem", "san", "pham">>, <<"xem", "hinh">>, <<"hinh", "anh">>,
     <<"anh", "san", "pham">>, <<"link", "anh">>}
ACK_WORDS == {"ok", "oke", "okay", "okie", "duoc", "dc", "roi", "r", "vang", "va", "vay", "u", "uh", "da"}
BUY_INTENT_RE == {<<"mua">>, <<"chot">>, <<"chot", "don">>, <<"chot", "mua">>, <<"xac", "nhan", "mua">>}
QuantityUnits == {"cai", "chiec", "con", "bo", "cap", "set", "pcs", "sp"}
PureQuantityUnits == {"cai", "chiec", "con", "bo", "cap"}
COMPATIBILITY_RE == {<<"tuong", "thich">>, <<"compatible">>, <<"equivalent">>, <<"thay", "the">>, <<"dung", "chung">>}
LOOKUP_HINT_RE ==
    {<<"ma">>, <<"sku">>, <<"code">>, <<"part", "no">>, <<"partno">>, <<"la", "ma", "nao">>, <<"ma", "nao">>,
     <<"ma", "gi">>, <<"xin", "ma">>, <<"tip", "body", "la">>}
SELLING_VERB_RE ==
    {<<"co", "ban">>, <<"coban">>, <<"ban", "khong">>, <<"ban", "ko">>, <<"ban", "k">>}
FOLLOWUP_CUE_RE == {<<"thi", "sao">>, <<"the", "sao">>, <<"sao">>}
AVAILABILITY_PHRASES ==
    {<<"co", "ban", "khong">>, <<"ban", "khong">>, <<"con", "ban", "khong">>, <<"co", "ban", "ko">>,
     <<"ban", "ko">>, <<"co", "ban", "k">>, <<"ban", "k">>, <<"co", "cung", "cap", "khong">>,
     <<"co", "cung", "cap", "ko">>, <<"co", "cung", "cap", "k">>, <<"ben", "em", "co", "khong">>,
     <<"ben", "em", "co", "ko">>, <<"ben", "em", "co", "k">>, <<"co", "khong">>, <<"co", "ko">>,
     <<"co", "k">>}
DEFAULT_BUNDLE_CATEGORIES == <<"TIP_BODY", "INSULATOR", "NOZZLE", "ORIFICE">>
\* PART_SYNONYMS, in dictionary order
PART_ROLES == <<"TIP_BODY", "INSULATOR", "NOZZLE", "ORIFICE">>
PART_SYNONYMS(role) ==
    CASE role = "TIP_BODY" -> {<<"than", "giu", "bec">>, <<"tip", "body">>, <<"holder">>}
      [] role = "INSULATOR" -> {<<"cach", "dien">>, <<"insulator">>}
      [] role = "NOZZLE" -> {<<"chup", "khi">>, <<"nozzle">>}
      [] role = "ORIFICE" -> {<<"su", "phan", "phoi", "khi">>, <<"orifice">>, <<"diffuser">>}
BUNDLE_HINT_WORDS ==
    {<<"dong", "bo">>, <<"tron", "bo">>, <<"full", "bo">>, <<"kem", "ca", "bo">>, <<"combo">>,
     <<"di", "kem", "du", "bo">>}
AFFIRM_TERMS ==
    {<<"muon">>, <<"ok">>, <<"oke">>, <<"okay">>, <<"dong", "y">>, <<"nhat", "tri">>, <<"chap", "nhan">>,
     <<"co">>, <<"duoc">>, <<"yes">>}
NEGATE_TERMS ==
    {<<"khong">>, <<"khong", "can">>, <<"khong", "muon">>, <<"de", "sau">>, <<"thoi">>, <<"huy">>,
     <<"cancel">>, <<"ko">>, <<"k">>}
TECHNICAL_INTENTS ==
    {"PRODUCT_LOOKUP", "ACCESSORY_LOOKUP", "ACCESSORY_BUNDLE_LOOKUP", "LIST", "LIST_REQUEST", "SLOT_FILL_AMP"}
SHORT_MEMORY_TTL_SEC == 900

(***************************************************************************)
(* SlotExtractor: the detectors of one utterance n (a sequence of words).  *)
(***************************************************************************)
\* positions where CODE_RE  \b(tokin(?:arc)?\s*\d+)\b  matches
CodeReAt(n, i) ==
    /\ i + 1 <= Len(n)
    /\ n[i] \in {"tokin", "tokinarc"}
    /\ DigitLen(n[i + 1]) > 0
CODE_RE(n) == \E i \in 1..Len(n) : CodeReAt(n, i)
D_CODE_RE(n) == \E i \in 1..Len(n) : IsDCode(n[i])
P_CODE_RE(n) == \E i \in 1..Len(n) : IsPCode(n[i])
IsNumCode(w) == DigitLen(w) \in {5, 6}
NUM_CODE_RE(n) == \E i \in 1..Len(n) : IsNumCode(n[i])

\* AMP_ANY_RE  \b(\d{3})\s*a\b : position and label of the matches
AmpAt(n, i) ==
    IF AmpWord(n[i]) # "" THEN AmpWord(n[i])
    ELSE IF i + 1 <= Len(n) /\ DigitLen(n[i]) = 3 /\ n[i + 1] = "a"
         THEN IF n[i] = "100" THEN "100A" ELSE "000A"
         ELSE ""
AMP_ANY_RE(n) == \E i \in 1..Len(n) : AmpAt(n, i) # ""
FirstAmp(n) ==
    IF AMP_ANY_RE(n)
    THEN AmpAt(n, CHOOSE i \in 1..Len(n) : AmpAt(n, i) # "" /\ \A j \in 1..(i - 1) : AmpAt(n, j) = "")
    ELSE ""

RECURSIVE SelectSeq2(_, _, _)
\* the values f[i] for the positions i of 1..k where f[i] is not None, in order
SelectSeq2(f, k, acc) ==
    IF k = 0 THEN acc
    ELSE SelectSeq2(f, k - 1, IF f[k] # None THEN <<f[k]>> \o acc ELSE acc)

extract_skus(n) ==
    SelectSeq2([i \in 1..Len(n) |-> IF CodeReAt(n, i) THEN n[i + 1] ELSE None], Len(n), <<>>)

\* all codes (D, P and numeric families) in order of position
extract_codes(n) ==
    SelectSeq2([i \in 1..Len(n) |->
                   IF IsDCode(n[i]) \/ IsPCode(n[i]) \/ IsNumCode(n[i]) THEN n[i] ELSE None],
               Len(n), <<>>)
primary_code(n) == IF extract_codes(n) = <<>> THEN "" ELSE extract_codes(n)[1]

\* an optional number: <<>> for None, <<x>> for the number x
NoNumber == <<>>
Some(x) == <<x>>

SoLuongAt(n, i) ==
    \/ i + 2 <= Len(n) /\ n[i] = "so" /\ n[i + 1] = "luong" /\ DigitLen(n[i + 2]) \in 1..6
    \/ i + 1 <= Len(n) /\ n[i] = "sl" /\ DigitLen(n[i + 1]) \in 1..6
QuantityAt(n, i) ==
    i + 1 <= Len(n) /\ DigitLen(n[i]) \in 1..6 /\ n[i + 1] \in QuantityUnits
extract_quantity(n) ==
    IF \E i \in 1..Len(n) : SoLuongAt(n, i)
    THEN LET i == CHOOSE k \in 1..Len(n) : SoLuongAt(n, k) /\ \A j \in 1..(k - 1) : ~SoLuongAt(n, j)
         IN  IF n[i] = "sl" THEN Some(NumValue(n[i + 1])) ELSE Some(NumValue(n[i + 2]))
    ELSE IF \E i \in 1..Len(n) : QuantityAt(n, i)
         THEN LET i == CHOOSE k \in 1..Len(n) : QuantityAt(n, k) /\ \A j \in 1..(k - 1) : ~QuantityAt(n, j)
              IN  Some(NumValue(n[i]))
         ELSE NoNumber

detect_product_group(n) ==
    IF InText(n, <<"than", "giu">>) \/ InText(n, <<"tip", "body">>) THEN "TIP_BODY"
    ELSE IF InText(n, <<"cach", "dien">>) \/ InText(n, <<"insulator">>) THEN "INSULATOR"
    ELSE IF InText(n, <<"su">>) \/ InText(n, <<"orifice">>) \/ InText(n, <<"diffuser">>) THEN "ORIFICE"
    ELSE IF InText(n, <<"chup">>) \/ InText(n, <<"nozzle">>) THEN "NOZZLE"
    ELSE IF InText(n, <<"bec">>) \/ InText(n, <<"contact", "tip">>) \/ InText(n, <<"tip">>) THEN "TIP"
    ELSE None

RECURSIVE RequestedFrom(_, _)
RequestedFrom(n, k) ==
    IF k > Len(PART_ROLES) THEN <<>>
    ELSE (IF InTextAny(n, PART_SYNONYMS(PART_ROLES[k])) THEN <<PART_ROLES[k]>> ELSE <<>>)
         \o RequestedFrom(n, k + 1)
\* extract_requested_parts: (requested roles, expand_bundle)
requested_parts(n) == RequestedFrom(n, 1)
expand_bundle_hint(n) == InTextAny(n, BUNDLE_HINT_WORDS)

is_accessory_bundle_query(n) ==
    \/ expand_bundle_hint(n)
    \/ InWords(n, BUNDLE_QUERY_RE)
    \/ Len(requested_parts(n)) >= 2

is_ask_selling_scope(n) == InTextAny(n, ASK_SELLING_SCOPE_PHRASES)
is_availability_query(n) == InTextAny(n, AVAILABILITY_PHRASES)

is_acknowledgement(n) ==
    /\ Len(n) > 0
    /\ Len(n) <= 3
    /\ \A i \in 1..Len(n) : n[i] \in ACK_WORDS

is_info_only_query(n) ==
    IF Len(n) = 0 THEN FALSE
    ELSE IF InWords(n, LISTING_RE) \/ InWords(n, PRODUCT_INFO_RE) \/ InWords(n, RELATED_QUERY_RE) THEN FALSE
    ELSE IF is_acknowledgement(n) THEN TRUE
    ELSE InWords(n, INFO_ONLY_RE) /\ Len(n) <= 8

is_pure_quantity_message(n) ==
    \/ Len(n) = 1 /\ DigitLen(n[1]) \in 1..6
    \/ Len(n) = 1 /\ n[1] = "mot"
    \/ Len(n) = 2 /\ n[1] = "mot" /\ n[2] \in PureQuantityUnits
    \/ Len(n) = 2 /\ DigitLen(n[1]) \in 1..6 /\ n[2] \in PureQuantityUnits

parse_pure_quantity_value(n) ==
    IF Len(n) = 1 /\ DigitLen(n[1]) \in 1..6 THEN Some(NumValue(n[1]))
    ELSE IF Len(n) = 2 /\ DigitLen(n[1]) \in 1..6 /\ n[2] \in PureQuantityUnits THEN Some(NumValue(n[1]))
    ELSE IF n[1] = "mot" /\ (Len(n) = 1 \/ (Len(n) = 2 /\ n[2] \in PureQuantityUnits)) THEN Some(1)
    ELSE NoNumber

is_quantity_followup_message(n) ==
    /\ extract_quantity(n) # NoNumber
    /\ ~(CODE_RE(n) \/ InWords(n, LISTING_RE) \/ InWords(n, PRICE_RE) \/ InWords(n, RELATED_QUERY_RE))
    /\ detect_product_group(n) = None
    /\ Len(n) <= 8

is_type_only_message(n) ==
    /\ Len(n) <= 6
    /\ InWords(n, TYPE_ANSWER_RE)
    /\ ~CODE_RE(n)
    /\ ~InWords(n, LISTING_RE)
    /\ ~InWords(n, PRICE_RE)

is_amp_only_message(n) ==
    /\ AMP_ANY_RE(n)
    /\ extract_quantity(n) = NoNumber
    /\ detect_product_group(n) = None
    /\ ~(CODE_RE(n) \/ D_CODE_RE(n) \/ P_CODE_RE(n) \/ NUM_CODE_RE(n))
    /\ ~(InWords(n, PRICE_RE) \/ InWords(n, LISTING_RE) \/ InWords(n, RELATED_QUERY_RE))
    /\ (Len(n) <= 4 \/ (InWords(n, FOLLOWUP_CUE_RE) /\ Len(n) <= 6))

\* the guards is_affirmation_message and is_negative_message share
ShortReplyShape(n) ==
    /\ Len(n) > 0
    /\ ~is_availability_query(n)
    /\ ~(CODE_RE(n) \/ InWords(n, LISTING_RE) \/ InWords(n, PRICE_RE))
    /\ extract_quantity(n) = NoNumber
    /\ ~AMP_ANY_RE(n)
    /\ detect_product_group(n) = None
    /\ ~InWords(n, RELATED_QUERY_RE)
    /\ Len(n) <= 4
is_affirmation_message(n) == ShortReplyShape(n) /\ InWords(n, AFFIRM_TERMS)
is_negative_message(n) == ShortReplyShape(n) /\ InWords(n, NEGATE_TERMS)

detect_dialogue_act(n) ==
    IF is_amp_only_message(n) THEN "SLOT_FILL_AMP"
    ELSE IF is_type_only_message(n) THEN "SLOT_FILL_TYPE"
    ELSE IF is_pure_quantity_message(n) \/ is_quantity_followup_message(n) THEN "SLOT_FILL_QUANTITY"
    ELSE IF is_affirmation_message(n) THEN "AFFIRM"
    ELSE IF is_negative_message(n) THEN "NEGATE"
    ELSE "NEW_INTENT"

detect_topic(n) ==
    IF InWords(n, INFO_ONLY_RE) THEN "origin"
    ELSE IF InWords(n, COMPATIBILITY_RE) THEN "compatibility"
    ELSE IF InWords(n, LISTING_RE) THEN "list"
    ELSE IF InWords(n, PRICE_RE) THEN "commercial"
    ELSE "product"

detect_buy_intent(n, quantity) ==
    \/ (quantity # NoNumber /\ quantity # Some(0))
    \/ InWords(n, BUY_INTENT_RE)
    \/ InWords(n, CLOSE_INTENT_RE)

has_technical_constraints(n) ==
    \/ AMP_ANY_RE(n)
    \/ CODE_RE(n) \/ D_CODE_RE(n) \/ P_CODE_RE(n) \/ NUM_CODE_RE(n)

is_tech_product_inquiry(n) ==
    /\ ~is_quantity_followup_message(n)
    /\ detect_product_group(n) # None
    /\ extract_codes(n) = <<>>
    /\ InWords(n, SELLING_VERB_RE)
    /\ has_technical_constraints(n)

is_technical_lookup(n) ==
    /\ ~is_quantity_followup_message(n)
    /\ ~(InWords(n, RELATED_QUERY_RE) \/ is_accessory_bundle_query(n))
    /\ detect_product_group(n) # None
    /\ extract_codes(n) = <<>>
    /\ ~(InWords(n, PRICE_RE) \/ is_availability_query(n) \/ (\E i \in 1..Len(n) : QuantityAt(n, i))
         \/ InWords(n, BUY_INTENT_RE))
    /\ (InWords(n, LOOKUP_HINT_RE) \/ Len(n) <= 6)

(***************************************************************************)
(* Values.  A Python None is None where the other values are strings; an   *)
(* optional number (a quantity, a timestamp) is <<>> or <<n>>; an optional *)
(* boolean is None, "True" or "False".  A dict of constraints keeps one    *)
(* field per key the vocabulary can produce, "" standing for an absent key.*)
(***************************************************************************)
BoolStr(b) == IF b THEN "True" ELSE "False"

EmptyConstraints == [product_group |-> "", amp |-> "", system |-> ""]

\* the dict {} read through .get(): falsy, every key absent
EmptyPendingAction ==
    [nonempty |-> FALSE, action |-> "", required_parts |-> <<>>, anchor_sku |-> "",
     product_group |-> "", constraints |-> EmptyConstraints]

EmptyPendingRequest ==
    [required_parts |-> <<>>, missing_fields |-> <<>>, done_parts |-> <<>>, todo_parts |-> <<>>]

default_short_memory ==
    [last_anchor |-> [sku |-> "", cat |-> "", line_amp |-> "", is_robot |-> None, name |-> ""],
     last_intent |-> "",
     last_topic |-> "",
     last_results |-> <<>>,
     pending_request |-> EmptyPendingRequest,
     pending_action |-> [nonempty |-> TRUE, action |-> "", required_parts |-> <<>>,
                         anchor_sku |-> "", product_group |-> "",
                         constraints |-> EmptyConstraints],
     last_user_constraints |-> EmptyConstraints,
     last_commercial_context |-> [quantity |-> NoNumber, contact_collected |-> FALSE,
                                  show_form |-> FALSE],
     updated_at |-> NoNumber]

\* the order_state of a session that has not completed a turn: {} after normalize_order_state
EmptyOrderState ==
    [selected_sku |-> "", selected_group |-> "", quantity |-> NoNumber,
     hand_or_robot |-> "", hand_or_robot_source |-> "", contact |-> "",
     last_intent |-> "", last_context_codes |-> <<>>, last_group |-> "",
     last_constraints |-> EmptyConstraints,
     has_short_memory |-> FALSE, short_memory |-> default_short_memory,
     short_memory_ts |-> NoNumber,
     selling_scope_variant |-> NoNumber,
     asked_hand_robot |-> FALSE, asked_contact_form |-> FALSE]

\* normalize_short_memory(order_state) at time t: the memory the turn reads
Expired(order_state, t) ==
    \/ order_state.short_memory_ts = NoNumber
    \/ (t - order_state.short_memory_ts[1]) > SHORT_MEMORY_TTL_SEC

\* a session store that hands the stored memory back whatever its age
normalize_short_memory_no_ttl(order_state, t) ==
    IF ~order_state.has_short_memory THEN default_short_memory
    ELSE order_state.short_memory

normalize_short_memory(order_state, t) ==
    IF ~order_state.has_short_memory \/ Expired(order_state, t)
    THEN default_short_memory
    ELSE order_state.short_memory

\* merge_unique over upper-case role names: order kept, duplicates dropped
RECURSIVE merge_unique_from(_, _)
merge_unique_from(seq, seen) ==
    IF seq = <<>> THEN <<>>
    ELSE IF Head(seq) = "" \/ Head(seq) \in seen THEN merge_unique_from(Tail(seq), seen)
         ELSE <<Head(seq)>> \o merge_unique_from(Tail(seq), seen \cup {Head(seq)})
merge_unique(primary, secondary) == merge_unique_from(primary \o secondary, {})

SeqSet(seq) == {seq[i] : i \in 1..Len(seq)}

\* the constraints dict with the non-empty values of over laid on base
OverlayConstraints(base, over) ==
    [product_group |-> IF over.product_group # "" THEN over.product_group ELSE base.product_group,
     amp |-> IF over.amp # "" THEN over.amp ELSE base.amp,
     system |-> IF over.system # "" THEN over.system ELSE base.system]

\* pending constraints fill only the keys the dict does not hold yet
FillConstraints(base, fill) ==
    [product_group |-> IF base.product_group = "" THEN fill.product_group ELSE base.product_group,
     amp |-> IF base.amp = "" THEN fill.amp ELSE base.amp,
     system |-> IF base.system = "" THEN fill.system ELSE base.system]

parse_user_input(n) ==
    LET skus0 == extract_skus(n)
        codes == extract_codes(n)
        digit_codes == SelectSeq(codes, IsNumCode)
        skus == IF skus0 = <<>> /\ digit_codes # <<>> THEN digit_codes ELSE skus0
    IN  Let(extract_quantity(n), LAMBDA quantity :
    LET robot == InText(n, <<"robot">>) \/ InText(n, <<"robotic">>)
        hand == InText(n, <<"tay">>) \/ InText(n, <<"hand">>)
    IN  [normalized |-> n,
         skus |-> skus,
         codes |-> codes,
         primary_code |-> primary_code(n),
         quantity |-> quantity,
         amp |-> FirstAmp(n),
         is_robot |-> IF hand THEN "False" ELSE IF robot THEN "True" ELSE None,
         product_group |-> IF detect_product_group(n) = None THEN "" ELSE detect_product_group(n),
         required_parts |-> requested_parts(n),
         bundle_hint |-> InWords(n, BUNDLE_QUERY_RE),
         expand_bundle |-> expand_bundle_hint(n),
         constraints |-> [product_group |-> IF detect_product_group(n) = None THEN ""
                                            ELSE detect_product_group(n),
                          amp |-> FirstAmp(n), system |-> ""]])

\* the independent signal test of the NEW_INTENT branch
new_intent_signal(n) ==
    \/ CODE_RE(n)
    \/ InWords(n, LISTING_RE)
    \/ InWords(n, PRICE_RE)
    \/ InWords(n, RELATED_QUERY_RE)
    \/ detect_product_group(n) # None
    \/ extract_quantity(n) # NoNumber
    \/ AMP_ANY_RE(n)
    \/ is_availability_query(n)

(***************************************************************************)
(* MemoryResolver.                                                         *)
(***************************************************************************)
\* the anchor chosen before the pending action is looked at
ResolveFollowup(n, parsed, memory) ==
    \/ InWords(n, FOLLOWUP_CUE_RE)
    \/ parsed.quantity \notin {NoNumber, Some(0)}
    \/ parsed.amp # ""
    \/ parsed.is_robot # None
    \/ parsed.bundle_hint
    \/ (Len(n) <= 4 /\ memory.last_anchor.sku # "")

ResolveAnchor(n, parsed, memory) ==
    LET followup == ResolveFollowup(n, parsed, memory)
        last_anchor == memory.last_anchor
    IN  IF parsed.skus # <<>>
        THEN [sku |-> parsed.skus[1], cat |-> last_anchor.cat, name |-> last_anchor.name,
              used |-> FALSE]
        ELSE IF followup /\ last_anchor.sku # ""
        THEN [sku |-> last_anchor.sku, cat |-> last_anchor.cat, name |-> last_anchor.name,
              used |-> TRUE]
        ELSE IF followup /\ Len(memory.last_results) = 1
        THEN [sku |-> memory.last_results[1], cat |-> last_anchor.cat,
              name |-> last_anchor.name, used |-> TRUE]
        ELSE [sku |-> "", cat |-> last_anchor.cat, name |-> last_anchor.name, used |-> FALSE]

\* a resolver without the AFFIRM branch
NeverTakePendingAction(n, pending_action) == FALSE

\* a ladder that reuses the last intent whatever it is
ForceIntent_any_last_intent(is_list, bundle, line_amp, is_robot, anchor_sku, last_intent) ==
    IF ~is_list /\ bundle /\ anchor_sku # "" THEN "ACCESSORY_BUNDLE_LOOKUP"
    ELSE IF ~is_list /\ (line_amp # "" \/ is_robot # None) /\ anchor_sku # ""
    THEN last_intent
    ELSE ""

\* the force_intent ladder of resolve_request_with_memory; bundle is
\* required_parts or expand_bundle or parsed.get("bundle_hint")
ForceIntent(is_list, bundle, line_amp, is_robot, anchor_sku, last_intent) ==
    IF ~is_list /\ bundle /\ anchor_sku # ""
    THEN "ACCESSORY_BUNDLE_LOOKUP"
    ELSE IF ~is_list /\ line_amp # "" /\ anchor_sku # "" /\ last_intent \in TECHNICAL_INTENTS
    THEN last_intent
    ELSE IF ~is_list /\ is_robot # None /\ anchor_sku # "" /\ last_intent \in TECHNICAL_INTENTS
    THEN last_intent
    ELSE ""

\* the AFFIRM branch: the pending action's stored action is taken up
TakePendingAction(n, pending_action) ==
    /\ pending_action.nonempty
    /\ detect_dialogue_act(n) = "AFFIRM"
    /\ pending_action.action # ""

\* a resolver without the SLOT_FILL_* and NEGATE branches
ClearPendingAction_no_slot_fill(n, pending_action) ==
    \/ /\ pending_action.nonempty
       /\ detect_dialogue_act(n) = "AFFIRM"
       /\ pending_action.action # ""
    \/ /\ pending_action.nonempty
       /\ detect_dialogue_act(n) = "NEW_INTENT"
       /\ new_intent_signal(n)

\* clear_pending_action after the four branches on the dialogue act
ClearPendingAction(n, pending_action) ==
    \/ TakePendingAction(n, pending_action)
    \/ /\ pending_action.nonempty
       /\ detect_dialogue_act(n) \in {"SLOT_FILL_AMP", "SLOT_FILL_TYPE", "SLOT_FILL_QUANTITY"}
    \/ pending_action.nonempty /\ detect_dialogue_act(n) = "NEGATE"
    \/ /\ pending_action.nonempty
       /\ detect_dialogue_act(n) = "NEW_INTENT"
       /\ new_intent_signal(n)

resolve_request_with_memory(n, parsed, memory) ==
    LET pending_action == memory.pending_action
        is_list == InWords(n, LISTING_RE)
    IN  Let(ResolveAnchor(n, parsed, memory), LAMBDA anchor :
    Let(InText(n, <<"cach", "dien">>) \/ InText(n, <<"insulator">>), LAMBDA insulator :
    LET con_parts == n[1] = "con" /\ parsed.required_parts # <<>>
        group0 == IF parsed.product_group # "" THEN parsed.product_group ELSE anchor.cat
        group1 == IF con_parts /\ Len(parsed.required_parts) = 1
                  THEN parsed.required_parts[1] ELSE group0
        product_group == IF insulator THEN "INSULATOR" ELSE group1
        line_amp == IF parsed.amp # "" THEN parsed.amp ELSE memory.last_user_constraints.amp
        is_robot == IF parsed.is_robot = None THEN memory.last_anchor.is_robot
                    ELSE parsed.is_robot
        parts0 == IF parsed.required_parts = <<>> /\ parsed.bundle_hint
                  THEN memory.pending_request.required_parts ELSE parsed.required_parts
        parts1 == IF con_parts THEN parsed.required_parts ELSE parts0
        required_parts == IF insulator /\ "INSULATOR" \notin SeqSet(parts1)
                          THEN merge_unique(parts1, <<"INSULATOR">>) ELSE parts1
        expand_bundle == IF con_parts THEN FALSE ELSE parsed.expand_bundle
        constraints == OverlayConstraints(memory.last_user_constraints, parsed.constraints)
        last_intent == memory.last_intent
        force0 == ForceIntent(is_list,
                              required_parts # <<>> \/ expand_bundle \/ parsed.bundle_hint,
                              line_amp, is_robot, anchor.sku, last_intent)
        force1 == IF is_pure_quantity_message(n) \/ is_quantity_followup_message(n)
                  THEN "" ELSE force0
    IN  Let(TakePendingAction(n, pending_action), LAMBDA take :
    LET clear == ClearPendingAction(n, pending_action)
    IN  [anchor_sku |-> IF take /\ pending_action.anchor_sku # ""
                        THEN pending_action.anchor_sku ELSE anchor.sku,
         anchor_cat |-> anchor.cat,
         anchor_name |-> anchor.name,
         anchor_used |-> IF take /\ pending_action.anchor_sku # "" THEN TRUE ELSE anchor.used,
         product_group |-> IF take /\ pending_action.product_group # ""
                              /\ parsed.product_group = ""
                           THEN pending_action.product_group ELSE product_group,
         line_amp |-> line_amp,
         is_robot |-> is_robot,
         required_parts |-> IF take /\ pending_action.required_parts # <<>>
                            THEN pending_action.required_parts ELSE required_parts,
         bundle_hint |-> parsed.bundle_hint,
         expand_bundle |-> expand_bundle,
         constraints |-> IF take THEN FillConstraints(constraints, pending_action.constraints)
                         ELSE constraints,
         force_intent |-> IF take THEN pending_action.action ELSE force1,
         clear_pending_action |-> clear])))

\* apply_resolved_to_order_state: the order_state after the resolved slots are copied in
apply_resolved_to_order_state(order_state, resolved) ==
    [order_state EXCEPT
        !.selected_sku = IF resolved.anchor_sku # "" THEN resolved.anchor_sku ELSE @,
        !.selected_group = IF resolved.product_group # "" THEN resolved.product_group ELSE @,
        !.hand_or_robot = IF resolved.is_robot = "True" THEN "ROBOT"
                          ELSE IF resolved.is_robot = "False" THEN "HAND" ELSE @]

(***************************************************************************)
(* The utterances of the model: one or two for each dialogue act and each  *)
(* route of intent detection.                                              *)
(***************************************************************************)
Utterances ==
    {<<"ok">>, <<"khong">>, <<"350a">>, <<"robot">>, <<"100", "cai">>, <<"004002">>,
     <<"ok", "002005">>, <<"co", "ban", "gi">>, <<"ma", "004002">>, <<"u4167l00">>,
     <<"tokin", "002005">>, <<"bec">>, <<"xuat", "xu">>, <<"mua">>, <<"mua", "list">>,
     <<"bao", "gia">>, <<"cach", "dien">>, <<"tu", "van">>}

(***************************************************************************)
(* IntentDecision.  The entities dict keeps one field per key the later    *)
(* steps read; "" or <<>> stands for an absent key.  The missing list is a *)
(* set (only membership is ever tested).  collect_contact is the           *)
(* commercial_action.collect_contact of the decision, and of the entities  *)
(* once _apply_intent_decision has stored the commercial_action in them.   *)
(***************************************************************************)
EmptyEntities ==
    [skus |-> <<>>, quantity |-> NoNumber, is_robot |-> None, is_hand |-> None,
     product_group |-> "", amp |-> "", system |-> "", primary_code |-> "", codes |-> <<>>,
     required_categories |-> <<>>, missing_categories |-> <<>>,
     bundle_hint |-> FALSE, expand_bundle |-> FALSE, slot_target_intent |-> "",
     collect_contact |-> FALSE]

IntentDecision(intent, buy_intent, info_only, topic, entities, missing, next_action, collect) ==
    [intent |-> intent, buy_intent |-> buy_intent, info_only |-> info_only, topic |-> topic,
     entities |-> entities, missing |-> missing, next_action |-> next_action,
     collect_contact |-> collect]

GroupOrEmpty(n) == IF detect_product_group(n) = None THEN "" ELSE detect_product_group(n)

extract_lookup_constraints(n) ==
    [EmptyEntities EXCEPT !.product_group = GroupOrEmpty(n), !.amp = FirstAmp(n)]

AllowedActions ==
    {"ANSWER_ONLY", "ASK_FOR_SKU_OR_GROUP", "ASK_HAND_VS_ROBOT_ONCE", "REQUEST_CONTACT_FORM",
     "COMMERCIAL_NEUTRAL_REPLY"}
AnswerOnlyIntents ==
    {"LIST", "LIST_REQUEST", "PRODUCT_LOOKUP", "ACCESSORY_LOOKUP", "ACCESSORY_BUNDLE_LOOKUP",
     "CODE_LOOKUP", "QUANTITY_FOLLOWUP", "SLOT_FILL_AMP"}

\* the ladder without its "buy_intent and sku missing" rule
NextActionLadder_no_sku_rule(decision, info_only, proposed) ==
    IF info_only THEN "ANSWER_ONLY"
    ELSE IF decision.intent \in {"LIST", "LIST_REQUEST"} THEN "ANSWER_ONLY"
    ELSE IF decision.intent \in {"ACCESSORY_LOOKUP", "ACCESSORY_BUNDLE_LOOKUP"} THEN "ANSWER_ONLY"
    ELSE IF decision.intent = "SLOT_FILL_AMP" THEN "ANSWER_ONLY"
    ELSE IF decision.intent = "QUANTITY_FOLLOWUP"
         THEN (IF decision.collect_contact THEN "REQUEST_CONTACT_FORM" ELSE "ANSWER_ONLY")
    ELSE IF decision.intent = "PRODUCT_AVAILABILITY" THEN "ANSWER_ONLY"
    ELSE IF decision.intent = "CODE_LOOKUP" /\ ~decision.buy_intent THEN "ANSWER_ONLY"
    ELSE IF decision.buy_intent /\ "contact" \in decision.missing /\ decision.topic # "commercial"
         THEN "REQUEST_CONTACT_FORM"
    ELSE IF decision.topic = "commercial" THEN "COMMERCIAL_NEUTRAL_REPLY"
    ELSE IF "tay_robot" \in decision.missing THEN "ASK_HAND_VS_ROBOT_ONCE"
    ELSE proposed

\* the ladder without its "tay_robot missing" rule
NextActionLadder_no_type_rule(decision, info_only, proposed) ==
    IF info_only THEN "ANSWER_ONLY"
    ELSE IF decision.intent \in {"LIST", "LIST_REQUEST"} THEN "ANSWER_ONLY"
    ELSE IF decision.intent \in {"ACCESSORY_LOOKUP", "ACCESSORY_BUNDLE_LOOKUP"} THEN "ANSWER_ONLY"
    ELSE IF decision.intent = "SLOT_FILL_AMP" THEN "ANSWER_ONLY"
    ELSE IF decision.intent = "QUANTITY_FOLLOWUP"
         THEN (IF decision.collect_contact THEN "REQUEST_CONTACT_FORM" ELSE "ANSWER_ONLY")
    ELSE IF decision.intent = "PRODUCT_AVAILABILITY" THEN "ANSWER_ONLY"
    ELSE IF decision.intent = "CODE_LOOKUP" /\ ~decision.buy_intent THEN "ANSWER_ONLY"
    ELSE IF decision.buy_intent /\ "sku" \in decision.missing THEN "ASK_FOR_SKU_OR_GROUP"
    ELSE IF decision.buy_intent /\ "contact" \in decision.missing /\ decision.topic # "commercial"
         THEN "REQUEST_CONTACT_FORM"
    ELSE IF decision.topic = "commercial" THEN "COMMERCIAL_NEUTRAL_REPLY"
    ELSE proposed

\* the ladder ending in ANSWER_ONLY instead of the proposed action
NextActionLadder_answer_only(decision, info_only, proposed) ==
    IF info_only THEN "ANSWER_ONLY"
    ELSE IF decision.intent \in {"LIST", "LIST_REQUEST"} THEN "ANSWER_ONLY"
    ELSE IF decision.intent \in {"ACCESSORY_LOOKUP", "ACCESSORY_BUNDLE_LOOKUP"} THEN "ANSWER_ONLY"
    ELSE IF decision.intent = "SLOT_FILL_AMP" THEN "ANSWER_ONLY"
    ELSE IF decision.intent = "QUANTITY_FOLLOWUP"
         THEN (IF decision.collect_contact THEN "REQUEST_CONTACT_FORM" ELSE "ANSWER_ONLY")
    ELSE IF decision.intent = "PRODUCT_AVAILABILITY" THEN "ANSWER_ONLY"
    ELSE IF decision.intent = "CODE_LOOKUP" /\ ~decision.buy_intent THEN "ANSWER_ONLY"
    ELSE IF decision.buy_intent /\ "sku" \in decision.missing THEN "ASK_FOR_SKU_OR_GROUP"
    ELSE IF decision.buy_intent /\ "contact" \in decision.missing /\ decision.topic # "commercial"
         THEN "REQUEST_CONTACT_FORM"
    ELSE IF decision.topic = "commercial" THEN "COMMERCIAL_NEUTRAL_REPLY"
    ELSE IF "tay_robot" \in decision.missing THEN "ASK_HAND_VS_ROBOT_ONCE"
    ELSE "ANSWER_ONLY"

\* the ladder of apply_intent_rules; proposed is the filtered next_action
NextActionLadder(decision, info_only, proposed) ==
    IF info_only THEN "ANSWER_ONLY"
    ELSE IF decision.intent \in {"LIST", "LIST_REQUEST"} THEN "ANSWER_ONLY"
    ELSE IF decision.intent \in {"ACCESSORY_LOOKUP", "ACCESSORY_BUNDLE_LOOKUP"} THEN "ANSWER_ONLY"
    ELSE IF decision.intent = "SLOT_FILL_AMP" THEN "ANSWER_ONLY"
    ELSE IF decision.intent = "QUANTITY_FOLLOWUP"
         THEN (IF decision.collect_contact THEN "REQUEST_CONTACT_FORM" ELSE "ANSWER_ONLY")
    ELSE IF decision.intent = "PRODUCT_AVAILABILITY" THEN "ANSWER_ONLY"
    ELSE IF decision.intent = "CODE_LOOKUP" /\ ~decision.buy_intent THEN "ANSWER_ONLY"
    ELSE IF decision.buy_intent /\ "sku" \in decision.missing THEN "ASK_FOR_SKU_OR_GROUP"
    ELSE IF decision.buy_intent /\ "contact" \in decision.missing /\ decision.topic # "commercial"
         THEN "REQUEST_CONTACT_FORM"
    ELSE IF decision.topic = "commercial" THEN "COMMERCIAL_NEUTRAL_REPLY"
    ELSE IF "tay_robot" \in decision.missing THEN "ASK_HAND_VS_ROBOT_ONCE"
    ELSE proposed

\* apply_intent_rules without the allowed_actions test
KeepAction(next_action) == next_action

\* a next_action outside allowed_actions falls back to ANSWER_ONLY
FilterAction(next_action) ==
    IF next_action \in AllowedActions THEN next_action ELSE "ANSWER_ONLY"

\* the returned decision carries no commercial_action
apply_intent_rules(decision) ==
    LET info_only == IF decision.intent \in AnswerOnlyIntents THEN FALSE ELSE decision.info_only
        proposed == FilterAction(decision.next_action)
    IN  [decision EXCEPT !.info_only = info_only,
                         !.next_action = NextActionLadder(decision, info_only, proposed),
                         !.collect_contact = FALSE]

(***************************************************************************)
(* The generator's reply to the intent prompt, after safe_json_loads: a    *)
(* JSON object (is_dict) with the keys the parser reads, "" for an absent  *)
(* or empty string key, or anything else (no reply, text that is not       *)
(* JSON), which the parser treats as the empty object.  raises tells that  *)
(* the call to the generator ended with an exception instead of a reply.   *)
(***************************************************************************)
NoReply ==
    [raises |-> FALSE, is_dict |-> FALSE, intent |-> "", has_buy_intent |-> FALSE,
     buy_intent |-> FALSE, topic |-> "", next_action |-> "", missing |-> {},
     collect_contact |-> FALSE, is_robot |-> None]
GeneratorRaises == [NoReply EXCEPT !.raises = TRUE]

\* a generator call that raises, as the one that answers nothing
IntentTextNoExcept(outcome) == [raised |-> outcome.raises, raw |-> outcome]

\* _step_intent_detection: raw = "" ; try: raw = generate_text(...) ; except
\* Exception: raw = "".  raised tells whether an exception leaves the step.
IntentText(outcome) ==
    IF outcome.raises THEN [raised |-> FALSE, raw |-> NoReply]
    ELSE [raised |-> FALSE, raw |-> outcome]

\* str.upper() and str.lower() on the strings the replies of the model use
UpperPairs == {<<"list", "LIST">>, <<"answer_only", "ANSWER_ONLY">>}
Upper(str) == IF \E pr \in UpperPairs : pr[1] = str
              THEN (CHOOSE pr \in UpperPairs : pr[1] = str)[2]
              ELSE str
LowerPairs == {<<"SKU", "sku">>, <<"Commercial", "commercial">>}
Lower(str) == IF \E pr \in LowerPairs : pr[1] = str
              THEN (CHOOSE pr \in LowerPairs : pr[1] = str)[2]
              ELSE str
ContactAliases == {"contact_info", "contactinfo", "phone"}
NormalizeMissing(missing) ==
    {IF Lower(item) \in ContactAliases THEN "contact" ELSE Lower(item) : item \in missing}
Topics == {"product", "origin", "compatibility", "list", "commercial"}

\* the intent label of parse_intent_output: the reply's label, then the overrides
ParsedIntent(data, n) ==
    LET fallback == IF is_availability_query(n) THEN "PRODUCT_AVAILABILITY" ELSE "OTHER"
        named == IF data.intent # "" THEN Upper(data.intent) ELSE fallback
        avail == IF is_availability_query(n) THEN "PRODUCT_AVAILABILITY" ELSE named
        amp == IF is_amp_only_message(n) THEN "SLOT_FILL_AMP" ELSE avail
        codes == extract_codes(n)
        routed == IF is_accessory_bundle_query(n) THEN "ACCESSORY_BUNDLE_LOOKUP"
                  ELSE IF codes # <<>> /\ InWords(n, RELATED_QUERY_RE) THEN "ACCESSORY_LOOKUP"
                  ELSE IF codes # <<>> THEN "CODE_LOOKUP"
                  ELSE IF InWords(n, LISTING_RE) THEN "LIST"
                  ELSE amp
    IN  IF is_quantity_followup_message(n) /\ codes = <<>> /\ detect_product_group(n) = None
        THEN "QUANTITY_FOLLOWUP"
        ELSE routed

ParsedTopic(data, n) ==
    LET named == IF data.topic # "" THEN Lower(data.topic) ELSE detect_topic(n)
        known == IF named \in Topics THEN named ELSE detect_topic(n)
    IN  IF is_quantity_followup_message(n) \/ is_amp_only_message(n) THEN "product" ELSE known

ParsedInfoOnly(intent, n) ==
    IF intent \in {"LIST", "LIST_REQUEST", "PRODUCT_LOOKUP", "ACCESSORY_LOOKUP",
                   "ACCESSORY_BUNDLE_LOOKUP", "CODE_LOOKUP", "PRODUCT_AVAILABILITY",
                   "QUANTITY_FOLLOWUP", "SLOT_FILL_AMP"}
    THEN FALSE
    ELSE IF InWords(n, LISTING_RE) \/ CODE_RE(n) \/ InWords(n, RELATED_QUERY_RE)
            \/ extract_quantity(n) # NoNumber
         THEN FALSE
         ELSE is_info_only_query(n)

ParsedEntities(data, n) ==
    LET insulator == InText(n, <<"cach", "dien">>) \/ InText(n, <<"insulator">>)
        parts == requested_parts(n)
    IN  [EmptyEntities EXCEPT
            !.skus = extract_skus(n),
            !.quantity = extract_quantity(n),
            !.is_robot = IF data.is_robot # None THEN data.is_robot
                         ELSE BoolStr(InText(n, <<"robot">>)),
            !.is_hand = BoolStr(InText(n, <<"tay">>)),
            !.product_group = IF insulator THEN "INSULATOR" ELSE GroupOrEmpty(n),
            !.amp = FirstAmp(n),
            !.primary_code = primary_code(n),
            !.codes = extract_codes(n),
            !.required_categories = IF insulator /\ "INSULATOR" \notin SeqSet(parts)
                                    THEN merge_unique(parts, <<"INSULATOR">>)
                                    ELSE parts,
            !.bundle_hint = InWords(n, BUNDLE_QUERY_RE),
            !.expand_bundle = expand_bundle_hint(n)]

\* the missing list: the reply's list, normalised, then the slots the rules add and drop
ParsedMissing(data, n, intent, buy_intent, topic, entities, state, order_state) ==
    LET has_contact_info == state.has_contact_info \/ order_state.contact # ""
        has_type_info == entities.is_robot = "True" \/ entities.is_hand = "True"
                         \/ state.has_asked_type
        named == NormalizeMissing(data.missing)
        listed == IF intent \in {"LIST", "LIST_REQUEST", "ACCESSORY_BUNDLE_LOOKUP", "SLOT_FILL_AMP"}
                  THEN named \ {"tay_robot"} ELSE named
        added == listed
                 \cup (IF (buy_intent \/ topic = "commercial") /\ entities.quantity = NoNumber
                       THEN {"quantity"} ELSE {})
                 \cup (IF entities.skus = <<>> /\ order_state.selected_sku = ""
                       THEN {"sku"} ELSE {})
                 \cup (IF buy_intent /\ ~has_contact_info THEN {"contact"} ELSE {})
                 \cup (IF data.collect_contact /\ ~has_contact_info THEN {"contact"} ELSE {})
                 \cup (IF ~has_type_info THEN {"tay_robot"} ELSE {})
    IN  IF intent = "CODE_LOOKUP" THEN added \ {"sku"} ELSE added

parse_intent_output(raw, n, state, order_state) ==
    LET data == IF raw.is_dict THEN raw ELSE NoReply
    IN  Let(ParsedIntent(data, n), LAMBDA intent :
    LET buy_intent == IF data.has_buy_intent THEN data.buy_intent
                      ELSE detect_buy_intent(n, extract_quantity(n))
    IN  Let(ParsedTopic(data, n), LAMBDA topic :
    Let(ParsedEntities(data, n), LAMBDA entities :
    LET has_contact_info == state.has_contact_info \/ order_state.contact # ""
        has_selected == order_state.selected_sku # "" \/ order_state.selected_group # ""
                        \/ entities.skus # <<>>
    IN  Let(ParsedMissing(data, n, intent, buy_intent, topic, entities, state, order_state), LAMBDA missing :
    Let(is_quantity_followup_message(n) /\ has_selected /\ ~has_contact_info, LAMBDA followup :
    LET proposed == IF followup THEN "REQUEST_CONTACT_FORM"
                    ELSE IF data.collect_contact /\ ~has_contact_info THEN "REQUEST_CONTACT_FORM"
                    ELSE IF data.next_action # "" THEN Upper(data.next_action)
                    ELSE "ANSWER_ONLY"
        pure == is_pure_quantity_message(n) /\ has_selected
    IN  Let(
            IF entities.quantity # NoNumber /\ entities.quantity # Some(0)
            THEN entities.quantity
            ELSE IF parse_pure_quantity_value(n) \notin {NoNumber, Some(0)}
                 THEN parse_pure_quantity_value(n)
                 ELSE extract_quantity(n)
        , LAMBDA quantity :
    apply_intent_rules(
            IntentDecision(intent,
                           IF pure THEN TRUE ELSE buy_intent,
                           IF pure THEN FALSE ELSE ParsedInfoOnly(intent, n),
                           topic,
                           IF pure THEN [entities EXCEPT !.quantity = quantity] ELSE entities,
                           IF pure THEN (IF followup THEN missing \cup {"contact"} ELSE missing)
                                        \ {"sku", "quantity"}
                           ELSE IF followup THEN missing \cup {"contact"} ELSE missing,
                           proposed,
                           data.collect_contact))))))))

NotOf(tri) == IF tri = "True" THEN "False" ELSE IF tri = "False" THEN "True" ELSE None

\* build_forced_decision when resolved.force_intent is set
build_forced_decision(n, parsed, resolved) ==
    LET amp == IF resolved.constraints.amp # "" THEN resolved.constraints.amp
               ELSE resolved.line_amp
        entities ==
            [EmptyEntities EXCEPT
                !.skus = IF resolved.anchor_sku # "" THEN <<resolved.anchor_sku>> ELSE <<>>,
                !.quantity = parsed.quantity,
                !.is_robot = resolved.is_robot,
                !.is_hand = NotOf(resolved.is_robot),
                !.product_group = resolved.product_group,
                !.amp = amp,
                !.system = resolved.constraints.system,
                !.primary_code = parsed.primary_code,
                !.codes = parsed.codes,
                !.required_categories = resolved.required_parts,
                !.bundle_hint = parsed.bundle_hint,
                !.expand_bundle = resolved.expand_bundle]
    IN  IntentDecision(resolved.force_intent, detect_buy_intent(n, parsed.quantity), FALSE,
                       detect_topic(n), entities, {}, "ANSWER_ONLY", FALSE)

merge_decision_with_resolved(decision, resolved) ==
    LET entities == decision.entities
        merged ==
            [entities EXCEPT
                !.skus = IF resolved.anchor_sku # "" /\ @ = <<>>
                         THEN <<resolved.anchor_sku>> ELSE @,
                !.product_group = IF resolved.product_group # "" /\ @ = ""
                                  THEN resolved.product_group ELSE @,
                !.amp = IF resolved.line_amp # "" /\ @ = "" THEN resolved.line_amp ELSE @,
                !.is_robot = IF resolved.is_robot # None THEN resolved.is_robot ELSE @,
                !.is_hand = IF resolved.is_robot # None THEN NotOf(resolved.is_robot) ELSE @,
                !.required_categories = IF resolved.required_parts # <<>>
                                        THEN resolved.required_parts ELSE @,
                !.expand_bundle = IF resolved.expand_bundle THEN TRUE ELSE @,
                !.system = IF resolved.constraints.system # "" /\ @ = ""
                           THEN resolved.constraints.system ELSE @]
    IN  [decision EXCEPT
            !.entities = merged,
            !.missing = IF resolved.anchor_sku # "" THEN @ \ {"sku"} ELSE @]

\* the entities of the type-only route when a pending action is on file
PendingTypeEntities(n, pending_action) ==
    [EmptyEntities EXCEPT
        !.is_robot = BoolStr(InText(n, <<"robot">>)),
        !.is_hand = BoolStr(InText(n, <<"tay">>) \/ InText(n, <<"hand">>)),
        !.skus = IF pending_action.anchor_sku # "" THEN <<pending_action.anchor_sku>> ELSE <<>>,
        !.product_group = pending_action.product_group,
        !.required_categories = pending_action.required_parts,
        !.bundle_hint = pending_action.required_parts # <<>>,
        !.amp = pending_action.constraints.amp,
        !.system = pending_action.constraints.system]

\* the entities of the amp-only route
AmpOnlyEntities(n, short_memory, order_state) ==
    LET pending_action == short_memory.pending_action
        pending_parts == IF pending_action.required_parts # <<>>
                         THEN pending_action.required_parts
                         ELSE short_memory.pending_request.required_parts
        slot_target == IF pending_action.action # "" THEN pending_action.action
                       ELSE IF pending_parts # <<>> THEN "ACCESSORY_BUNDLE_LOOKUP"
                       ELSE IF short_memory.last_intent # "" THEN short_memory.last_intent
                       ELSE order_state.last_intent
    IN  [EmptyEntities EXCEPT
            !.amp = FirstAmp(n),
            !.slot_target_intent = slot_target,
            !.skus = IF pending_action.anchor_sku # "" THEN <<pending_action.anchor_sku>>
                     ELSE <<>>,
            !.required_categories = pending_parts,
            !.bundle_hint = pending_parts # <<>>]

\* the routes with the forced intent tried first
IntentRoute_forced_first(n, short_memory, resolved) ==
    IF resolved.force_intent # "" THEN "forced"
    ELSE IF is_ask_selling_scope(n) THEN "ask_selling_scope"
    ELSE IF is_type_only_message(n)
         THEN (IF short_memory.pending_action.action # "" THEN "type_only_pending"
               ELSE "type_switch")
    ELSE IF is_amp_only_message(n) THEN "amp_only"
    ELSE IF is_pure_quantity_message(n) \/ is_quantity_followup_message(n) THEN "quantity"
    ELSE IF is_tech_product_inquiry(n) \/ is_technical_lookup(n) THEN "product_lookup"
    ELSE "generator"

\* the route _step_intent_detection takes for the message
IntentRoute(n, short_memory, resolved) ==
    IF is_ask_selling_scope(n) THEN "ask_selling_scope"
    ELSE IF is_type_only_message(n)
         THEN (IF short_memory.pending_action.action # "" THEN "type_only_pending"
               ELSE "type_switch")
    ELSE IF is_amp_only_message(n) THEN "amp_only"
    ELSE IF is_pure_quantity_message(n) \/ is_quantity_followup_message(n) THEN "quantity"
    ELSE IF resolved.force_intent # "" THEN "forced"
    ELSE IF is_tech_product_inquiry(n) \/ is_technical_lookup(n) THEN "product_lookup"
    ELSE "generator"

\* the IntentDecision of _step_intent_detection; raw is the generator's reply
\* (read on the generator route only), state the build_intent_state facts
DecideIntent(n, short_memory, order_state, resolved, raw, state) ==
    Let(IntentRoute(n, short_memory, resolved), LAMBDA route :
    Let(parse_user_input(n), LAMBDA parsed :
    LET quantity == IF parsed.quantity # NoNumber THEN parsed.quantity
                    ELSE parse_pure_quantity_value(n)
    IN  CASE route = "ask_selling_scope" ->
                IntentDecision("ASK_SELLING_SCOPE", FALSE, FALSE, "commercial", EmptyEntities,
                               {}, "ANSWER_ONLY", FALSE)
          [] route = "type_only_pending" ->
                IntentDecision(short_memory.pending_action.action, FALSE, FALSE, "product",
                               PendingTypeEntities(n, short_memory.pending_action),
                               {}, "ANSWER_ONLY", FALSE)
          [] route = "type_switch" ->
                IntentDecision("TYPE_SWITCH", FALSE, FALSE, "product",
                               [EmptyEntities EXCEPT
                                   !.is_robot = BoolStr(InText(n, <<"robot">>)),
                                   !.is_hand = BoolStr(InText(n, <<"tay">>)
                                                       \/ InText(n, <<"hand">>))],
                               {}, "ANSWER_ONLY", FALSE)
          [] route = "amp_only" ->
                IntentDecision("SLOT_FILL_AMP", FALSE, FALSE, "product",
                               AmpOnlyEntities(n, short_memory, order_state),
                               {}, "ANSWER_ONLY", FALSE)
          [] route = "quantity" ->
                IntentDecision("QUANTITY_FOLLOWUP", TRUE, FALSE, "product",
                               [EmptyEntities EXCEPT !.quantity = quantity],
                               {}, "ANSWER_ONLY", FALSE)
          [] route = "forced" -> build_forced_decision(n, parsed, resolved)
          [] route = "product_lookup" ->
                IntentDecision("PRODUCT_LOOKUP", FALSE, FALSE, "product",
                               extract_lookup_constraints(n), {}, "ANSWER_ONLY", FALSE)
          [] OTHER ->
                merge_decision_with_resolved(
                    parse_intent_output(raw, n, state, order_state), resolved)))

(***************************************************************************)
(* The catalogue the resource loader returns: a contact tip and an         *)
(* insulator of the 350A hand-torch line.  An item is kept with the values *)
(* the item detectors compute from its name and category: detect_item_group*)
(* (group), detect_amp_line (amp), detect_item_type (type),                *)
(* detect_system_tag (system), _normalize_category (category) and whether  *)
(* that category is one of RELATED_CATEGORIES (related).  Lists of items   *)
(* are lists of codes.                                                     *)
(***************************************************************************)
Catalog ==
    <<[code |-> "004002", name |-> "bec han 350a", category |-> "CONTACTTIP", group |-> "TIP",
       amp |-> "350A", type |-> "HAND", system |-> "", related |-> FALSE],
      [code |-> "002005", name |-> "cach dien 350a", category |-> "INSULATOR",
       group |-> "INSULATOR", amp |-> "350A", type |-> "HAND", system |-> "",
       related |-> TRUE]>>
CatalogCodes == [i \in 1..Len(Catalog) |-> Catalog[i].code]
Item(code) == Catalog[CHOOSE i \in 1..Len(Catalog) : Catalog[i].code = code]
InCatalog(code) == \E i \in 1..Len(Catalog) : Catalog[i].code = code
Take(seq, k) == IF Len(seq) <= k THEN seq ELSE SubSeq(seq, 1, k)

\* item_matches_group: the category or a synonym of the group names the item
item_matches_group(code, group) == Item(code).group = group

\* match_items_by_codes: the catalogue items, in catalogue order, whose code is listed
match_items_by_codes(codes) ==
    SelectSeq(CatalogCodes, LAMBDA code : code \in SeqSet(codes))

\* exact_lookup_by_code: a U code is looked up in the D part numbers (the
\* catalogue has none), any other code by its digits
exact_lookup_by_code(code) ==
    IF code = "" \/ IsDCode(code) THEN <<>>
    ELSE SelectSeq(CatalogCodes, LAMBDA c : c = code)

find_item_by_selected_sku(selected_sku) ==
    IF selected_sku # "" /\ InCatalog(selected_sku) THEN <<selected_sku>> ELSE <<>>

\* the digit runs of a word, and the runs that occur inside a catalogue code
NumberRuns(w) ==
    CASE w = "u4167l00" -> {"4167", "00"}
      [] w = "350a" -> {"350"}
      [] DigitLen(w) > 0 -> {w}
      [] OTHER -> {}
CodeContains == {<<"004002", "004002">>, <<"002005", "002005">>,
                 <<"00", "004002">>, <<"00", "002005">>}

\* the score retrieve_relevant_items gives an item for the question n
SearchScore(n, code) ==
    LET runs == UNION {NumberRuns(n[i]) : i \in 1..Len(n)}
    IN  (IF Len(n) = 1 /\ <<n[1], code>> \in CodeContains THEN 5000 ELSE 0)
        + 500 * Cardinality({r \in runs : <<r, code>> \in CodeContains})
        + (IF InText(n, <<"bec">>) /\ Item(code).group = "TIP" THEN 500 ELSE 0)

RECURSIVE SortByScore(_, _)
\* stable sort by descending score
SortByScore(n, codes) ==
    IF codes = <<>> THEN <<>>
    ELSE Let(
            CHOOSE i \in 1..Len(codes) :
               /\ \A j \in 1..Len(codes) : SearchScore(n, codes[j]) <= SearchScore(n, codes[i])
               /\ \A j \in 1..(i - 1) : SearchScore(n, codes[j]) < SearchScore(n, codes[i])
        , LAMBDA best :
    <<codes[best]>>
             \o SortByScore(n, SelectSeq(codes, LAMBDA c : c # codes[best])))

retrieve_relevant_items(n) ==
    Take(SortByScore(n, SelectSeq(CatalogCodes, LAMBDA c : SearchScore(n, c) > 400)), 3)

\* infer_bundle_roles_from_catalog: the sorted roles of the compatible items
infer_bundle_roles_from_catalog(anchor, target_amp, target_system, torch_type) ==
    LET anchor_group == IF anchor = "" THEN "" ELSE Item(anchor).group
        ok(code) ==
            /\ Item(code).group \in SeqSet(DEFAULT_BUNDLE_CATEGORIES)
            /\ Item(code).group # anchor_group
            /\ (target_amp = "" \/ Item(code).amp = "" \/ Item(code).amp = target_amp)
            /\ (target_system = "" \/ Item(code).system = ""
                \/ Item(code).system = target_system)
            /\ (torch_type = "" \/ Item(code).type = torch_type)
        roles == {Item(CatalogCodes[i]).group : i \in {k \in 1..Len(Catalog) : ok(CatalogCodes[k])}}
    IN  SelectSeq(<<"INSULATOR", "NOZZLE", "ORIFICE", "TIP_BODY">>, LAMBDA r : r \in roles)

(***************************************************************************)
(* PipelineContext.  The answer text is kept as the facts later code reads *)
(* from it: the generation route, has_accessory_invite (invite),           *)
(* has_form_block (form_block) and whether it holds the hand-or-robot      *)
(* question (type_question).  An assistant message of the chat history is  *)
(* kept as the same facts plus its meta.context_codes.                     *)
(***************************************************************************)
NoAnswer ==
    [route |-> "", body |-> "", invite |-> FALSE, form_block |-> FALSE,
     type_question |-> FALSE, reminder |-> FALSE, mentions |-> <<>>]

EmptyResolved ==
    [anchor_sku |-> "", anchor_cat |-> "", anchor_name |-> "", anchor_used |-> FALSE,
     product_group |-> "", line_amp |-> "", is_robot |-> None, required_parts |-> <<>>,
     bundle_hint |-> FALSE, expand_bundle |-> FALSE, constraints |-> EmptyConstraints,
     force_intent |-> "", clear_pending_action |-> FALSE]

PipelineContext(user_message, chat_history, order_state, short_memory) ==
    [user_message |-> user_message, chat_history |-> chat_history,
     order_state |-> order_state, short_memory |-> short_memory,
     resolved_request |-> EmptyResolved,
     intent_label |-> "OTHER", buy_intent |-> FALSE, is_info_only |-> FALSE,
     intent_topic |-> "product", next_action |-> "ANSWER_ONLY",
     intent_entities |-> EmptyEntities, intent_missing |-> {}, primary_code |-> "",
     missing_sku |-> FALSE, missing_quantity |-> FALSE, missing_contact |-> FALSE,
     missing_type |-> FALSE, has_code_query |-> FALSE, request_contact |-> FALSE,
     items |-> <<>>, related_items |-> <<>>, display_items |-> <<>>, previous_codes |-> <<>>,
     is_asking_related |-> FALSE, is_availability_query |-> FALSE, is_asking_price |-> FALSE,
     is_close_intent |-> FALSE, has_asked_type |-> FALSE, has_asked_form |-> FALSE,
     has_contact_info |-> FALSE, should_ask_type |-> FALSE, should_show_form |-> FALSE,
     should_remind_contact |-> FALSE, should_render_products |-> FALSE,
     answer |-> NoAnswer, asked_form |-> FALSE, reminded_contact |-> FALSE]

\* _apply_intent_decision
apply_intent_decision(context, decision) ==
    LET missing_contact == "contact" \in decision.missing
    IN  [context EXCEPT
            !.intent_label = decision.intent,
            !.buy_intent = decision.buy_intent,
            !.is_info_only = decision.info_only,
            !.intent_topic = decision.topic,
            !.next_action = decision.next_action,
            !.intent_entities = [decision.entities EXCEPT
                                    !.collect_contact = decision.collect_contact],
            !.intent_missing = decision.missing,
            !.primary_code = decision.entities.primary_code,
            !.missing_sku = "sku" \in decision.missing,
            !.missing_quantity = "quantity" \in decision.missing,
            !.missing_contact = missing_contact,
            !.missing_type = "tay_robot" \in decision.missing,
            !.has_code_query = decision.entities.skus # <<>>
                               \/ decision.entities.primary_code # "",
            !.request_contact = \/ decision.next_action = "REQUEST_CONTACT_FORM"
                                \/ /\ decision.next_action = "COMMERCIAL_NEUTRAL_REPLY"
                                   /\ decision.buy_intent
                                   /\ missing_contact
                                \/ decision.collect_contact]

RECURSIVE AllContextCodes(_, _)
RECURSIVE LastContextCodes(_, _)
\* the facts build_intent_state reads from the chat history
HistoryAskedType(chat_history) ==
    \E i \in 1..Len(chat_history) : chat_history[i].type_question
HistoryAskedForm(chat_history) ==
    \E i \in 1..Len(chat_history) : chat_history[i].form_block
AllContextCodes(chat_history, k) ==
    IF k = 0 THEN <<>> ELSE AllContextCodes(chat_history, k - 1) \o chat_history[k].context_codes
LastContextCodes(chat_history, k) ==
    IF k = 0 THEN <<>>
    ELSE IF chat_history[k].context_codes # <<>> THEN chat_history[k].context_codes
    ELSE LastContextCodes(chat_history, k - 1)

\* _step_intent_detection; raw is the generator's reply
step_intent_detection(context, raw) ==
    LET n == context.user_message
    IN  Let(parse_user_input(n), LAMBDA parsed :
    Let(resolve_request_with_memory(n, parsed, context.short_memory), LAMBDA resolved :
    Let(apply_resolved_to_order_state(context.order_state, resolved), LAMBDA order_state :
    LET state == [has_contact_info |-> FALSE,
                  has_asked_type |-> HistoryAskedType(context.chat_history)]
    IN  Let(DecideIntent(n, context.short_memory, order_state, resolved, raw, state), LAMBDA decision :
    apply_intent_decision([context EXCEPT !.resolved_request = resolved,
                                              !.order_state = order_state],
                              decision)))))

(***************************************************************************)
(* _step_resource_retrieval.  A chat_history entry is one completed turn:  *)
(* the user's utterance and the assistant message with its context_codes   *)
(* and the items retrieve_relevant_items finds in its text (mentions).     *)
(***************************************************************************)
RECURSIVE PastSearch(_, _)
\* the first message, newest first, whose content retrieves an item
PastSearch(chat_history, k) ==
    IF k = 0 THEN <<>>
    ELSE IF chat_history[k].mentions # <<>> THEN chat_history[k].mentions
    ELSE IF retrieve_relevant_items(chat_history[k].user) # <<>>
         THEN retrieve_relevant_items(chat_history[k].user)
    ELSE PastSearch(chat_history, k - 1)

MessageMode(n) == IF InText(n, <<"robot">>) \/ InText(n, <<"robotic">>) THEN "ROBOT" ELSE "HAND"

CachedCodes(context) ==
    IF context.order_state.last_context_codes # <<>> THEN context.order_state.last_context_codes
    ELSE context.short_memory.last_results

\* the SLOT_FILL_AMP relabelling at the head of the step
SlotFillTarget(context) ==
    IF context.intent_entities.slot_target_intent # ""
    THEN context.intent_entities.slot_target_intent
    ELSE IF context.order_state.last_intent # "" THEN context.order_state.last_intent
    ELSE context.short_memory.last_intent

RelabelSlotFill(context) ==
    LET slot_target == SlotFillTarget(context)
        pending_parts == context.short_memory.pending_request.required_parts
        take_parts == /\ slot_target = "ACCESSORY_BUNDLE_LOOKUP"
                      /\ pending_parts # <<>>
                      /\ context.intent_entities.required_categories = <<>>
    IN  [context EXCEPT
            !.intent_label = slot_target,
            !.intent_topic = IF context.short_memory.last_topic # ""
                             THEN context.short_memory.last_topic ELSE @,
            !.intent_entities = [@ EXCEPT
                !.required_categories = IF take_parts THEN pending_parts ELSE @,
                !.bundle_hint = IF take_parts THEN TRUE ELSE @]]

\* the type-only branch
RetrieveTypeOnly(context) ==
    LET n == context.user_message
        order_state == context.order_state
        target_amp == order_state.last_constraints.amp
        mode == MessageMode(n)
        keep(code) ==
            /\ (order_state.last_group = "" \/ item_matches_group(code, order_state.last_group))
            /\ (target_amp = "" \/ Item(code).amp = "" \/ Item(code).amp = target_amp)
            /\ Item(code).type = mode
        codes == IF order_state.selected_sku # "" THEN <<order_state.selected_sku>>
                 ELSE CachedCodes(context)
    IN  IF order_state.last_intent \in {"LIST", "LIST_REQUEST"}
        THEN [context EXCEPT !.items = Take(SelectSeq(CatalogCodes, keep), 6)]
        ELSE [context EXCEPT !.items = match_items_by_codes(codes)]

\* the items of one required group of a bundle
BundleGroupItems(group, target_amp, target_system, torch_type) ==
    LET keep(code) ==
            /\ item_matches_group(code, group)
            /\ (target_amp = "" \/ Item(code).amp = "" \/ Item(code).amp = target_amp)
            /\ (target_system = "" \/ Item(code).system = ""
                \/ Item(code).system = target_system)
            /\ Item(code).type = torch_type
    IN  SelectSeq(CatalogCodes, keep)

RECURSIVE BundleItems(_, _, _, _)
BundleItems(required, target_amp, target_system, torch_type) ==
    IF required = <<>> THEN <<>>
    ELSE Take(BundleGroupItems(Head(required), target_amp, target_system, torch_type), 2)
         \o BundleItems(Tail(required), target_amp, target_system, torch_type)

\* the ACCESSORY_BUNDLE_LOOKUP branch
RetrieveBundle(context) ==
    LET n == context.user_message
        entities == context.intent_entities
        order_state == context.order_state
        explicit_roles == IF entities.required_categories # <<>>
                          THEN entities.required_categories ELSE requested_parts(n)
        by_code == exact_lookup_by_code(primary_code(n))
        by_selected == match_items_by_codes(<<order_state.selected_sku>>)
        by_anchor == match_items_by_codes(<<context.short_memory.last_anchor.sku>>)
        by_cache == match_items_by_codes(CachedCodes(context))
    IN  Let(
            IF by_code # <<>> THEN by_code
            ELSE IF by_selected # <<>> THEN by_selected
            ELSE IF by_anchor # <<>> THEN by_anchor
            ELSE by_cache
        , LAMBDA found :
    LET anchor == IF found = <<>> THEN "" ELSE found[1]
        target_amp == IF entities.amp # "" THEN entities.amp
                      ELSE IF anchor # "" /\ Item(anchor).amp # "" THEN Item(anchor).amp
                      ELSE order_state.last_constraints.amp
        target_system == IF entities.system # "" THEN entities.system
                         ELSE IF anchor # "" /\ Item(anchor).system # "" THEN Item(anchor).system
                         ELSE order_state.last_constraints.system
        assumed == order_state.hand_or_robot_source = "ASSUMED_DEFAULT"
        torch_type == IF order_state.hand_or_robot = "" \/ assumed THEN "HAND"
                      ELSE order_state.hand_or_robot
        bundle_roles == IF entities.expand_bundle
                        THEN infer_bundle_roles_from_catalog(anchor, target_amp, target_system,
                                                             IF assumed THEN "" ELSE torch_type)
                        ELSE <<>>
    IN  Let(merge_unique(explicit_roles, bundle_roles), LAMBDA required0 :
    LET required1 == IF required0 = <<>>
                     THEN context.short_memory.pending_request.required_parts ELSE required0
        required == IF required1 = <<>> /\ entities.expand_bundle
                    THEN DEFAULT_BUNDLE_CATEGORIES ELSE required1
        missing(group) == BundleGroupItems(group, target_amp, target_system, torch_type) = <<>>
    IN  [context EXCEPT
            !.items = IF anchor = "" THEN <<>> ELSE <<anchor>>,
            !.related_items = merge_unique(
                BundleItems(required, target_amp, target_system, torch_type), <<>>),
            !.intent_entities = [@ EXCEPT
                !.amp = IF target_amp # "" THEN target_amp ELSE @,
                !.system = IF target_system # "" THEN target_system ELSE @,
                !.required_categories = required,
                !.missing_categories = SelectSeq(required, missing)]]))

\* the ACCESSORY_LOOKUP branch
RetrieveAccessory(context) ==
    LET n == context.user_message
        by_code == exact_lookup_by_code(primary_code(n))
        by_codes == match_items_by_codes(extract_codes(n))
    IN  [context EXCEPT
            !.items = IF by_code # <<>> THEN by_code
                      ELSE IF by_codes # <<>> THEN by_codes
                      ELSE retrieve_relevant_items(n)]

\* the LIST branch
RetrieveList(context) ==
    LET n == context.user_message
        order_state == context.order_state
        last_anchor == context.short_memory.last_anchor
    IN  Let(
            IF detect_product_group(n) # None THEN detect_product_group(n)
            ELSE IF order_state.selected_group # "" THEN order_state.selected_group
            ELSE IF last_anchor.cat # "" THEN last_anchor.cat
            ELSE order_state.last_group
        , LAMBDA group :
    LET target_amp == IF InText(n, <<"350">>) THEN "350A"
                      ELSE IF InText(n, <<"500">>) THEN "500A"
                      ELSE IF context.intent_entities.amp # "" THEN context.intent_entities.amp
                      ELSE last_anchor.line_amp
        mode == IF InText(n, <<"robot">>) \/ InText(n, <<"robotic">>) THEN "ROBOT"
                ELSE IF InText(n, <<"tay">>) \/ InText(n, <<"hand">>) THEN "HAND"
                ELSE IF order_state.hand_or_robot \in {"ROBOT", "HAND"}
                     THEN order_state.hand_or_robot
                ELSE "HAND"
        keep(code) ==
            /\ (group = "" \/ Item(code).group = group)
            /\ (target_amp = "" \/ Item(code).amp = target_amp)
            /\ Item(code).type = mode
    IN  [context EXCEPT !.items = Take(SelectSeq(CatalogCodes, keep), 6)])

\* the PRODUCT_LOOKUP branch
RetrieveProduct(context) ==
    LET group == context.intent_entities.product_group
        target_amp == context.intent_entities.amp
        keep(code) ==
            /\ group # ""
            /\ item_matches_group(code, group)
            /\ (target_amp = "" \/ Item(code).amp = "" \/ Item(code).amp = target_amp)
    IN  [context EXCEPT !.items = SelectSeq(CatalogCodes, keep)]

\* the CODE_LOOKUP, quantity and free-text branches
RetrieveGeneric(context) ==
    LET n == context.user_message
        chat_history == context.chat_history
        skip_query == is_pure_quantity_message(n) \/ is_quantity_followup_message(n)
        code_lookup == context.intent_label = "CODE_LOOKUP"
        code == IF context.primary_code # "" THEN context.primary_code ELSE primary_code(n)
        exact == IF code_lookup THEN exact_lookup_by_code(code) ELSE <<>>
        selected_sku == context.order_state.selected_sku
    IN  Let(retrieve_relevant_items(n), LAMBDA found :
    LET cached_codes == LastContextCodes(chat_history, Len(chat_history))
        by_cache == IF found = <<>> THEN match_items_by_codes(cached_codes) ELSE found
        previous0 == IF found = <<>> THEN cached_codes ELSE <<>>
        previous == IF previous0 = <<>> THEN AllContextCodes(chat_history, Len(chat_history))
                    ELSE previous0
        matched == IF by_cache = <<>> THEN PastSearch(chat_history, Len(chat_history))
                   ELSE by_cache
    IN  IF skip_query
        THEN [context EXCEPT
                !.primary_code = IF code_lookup THEN code ELSE @,
                !.items = IF selected_sku # "" THEN match_items_by_codes(<<selected_sku>>)
                          ELSE exact,
                !.previous_codes = IF selected_sku # "" THEN <<selected_sku>> ELSE <<>>]
        ELSE IF code_lookup
        THEN [context EXCEPT !.primary_code = code, !.items = exact, !.previous_codes = <<>>]
        ELSE [context EXCEPT !.items = matched, !.previous_codes = previous])

\* _step_resource_retrieval
step_resource_retrieval(context) ==
    LET n == context.user_message
        no_target == context.intent_label = "SLOT_FILL_AMP" /\ SlotFillTarget(context) = ""
        relabelled == IF context.intent_label = "SLOT_FILL_AMP" THEN RelabelSlotFill(context)
                      ELSE context
    IN  IF no_target THEN [context EXCEPT !.items = <<>>]
        ELSE IF is_type_only_message(n) THEN RetrieveTypeOnly(relabelled)
        ELSE IF relabelled.intent_label = "ACCESSORY_BUNDLE_LOOKUP" THEN RetrieveBundle(relabelled)
        ELSE IF relabelled.intent_label = "ACCESSORY_LOOKUP" THEN RetrieveAccessory(relabelled)
        ELSE IF \/ relabelled.intent_label \in {"LIST", "LIST_REQUEST"}
                \/ (relabelled.intent_topic = "list" /\ InWords(n, LISTING_RE))
             THEN RetrieveList(relabelled)
        ELSE IF relabelled.intent_label = "PRODUCT_LOOKUP" THEN RetrieveProduct(relabelled)
        ELSE RetrieveGeneric(relabelled)

(***************************************************************************)
(* _step_context_guard.  No utterance of the model carries contact details *)
(* (detect_contact_info and extract_contact_value find none).  The bulk    *)
(* quantity threshold comes from the environment variable                  *)
(* BULK_QTY_THRESHOLD (env_value: its number when it is a string of        *)
(* digits, NoNumber otherwise) or from the metadata of the catalogue       *)
(* (metadata: the numbers its items give under one of BULK_QTY_KEYS).      *)
(* The service runs without the variable, on a catalogue without such      *)
(* metadata.                                                               *)
(***************************************************************************)
RECURSIVE MinOf(_)
MinOf(values) ==
    LET v == CHOOSE x \in values : TRUE
    IN  IF values = {v} THEN v
        ELSE LET rest == MinOf(values \ {v}) IN IF v < rest THEN v ELSE rest

\* a quantity above the threshold only
BulkOrder_strictly_above(bulk_threshold, quantity_value) ==
    /\ bulk_threshold \notin {NoNumber, Some(0)}
    /\ quantity_value # NoNumber
    /\ quantity_value[1] > bulk_threshold[1]

\* "bulk_threshold and isinstance(quantity_value, int) and quantity_value >= bulk_threshold"
BulkOrder(bulk_threshold, quantity_value) ==
    /\ bulk_threshold \notin {NoNumber, Some(0)}
    /\ quantity_value # NoNumber
    /\ quantity_value[1] >= bulk_threshold[1]

get_bulk_qty_threshold(env_value, metadata) ==
    LET values == {num \in metadata : num > 0}
    IN  IF env_value # NoNumber THEN env_value
        ELSE IF values # {} THEN Some(MinOf(values))
        ELSE NoNumber
INFO_RE ==
    {<<"xuat", "xu">>, <<"nguon", "goc">>, <<"vat", "lieu">>, <<"chat", "lieu">>, <<"ampe">>,
     <<"ampere">>, <<"amp">>}
REPEAT_REQUEST_RE ==
    {<<"gui", "lai">>, <<"nhac", "lai">>, <<"cho", "xem", "lai">>, <<"xem", "lai">>}
SINGLE_UNIT_RE ==
    {<<c, u>> : c \in {"1", "mot"}, u \in {"cai", "chiec", "con", "bo", "cap"}}
is_single_unit_request(n) == InWords(n, SINGLE_UNIT_RE)

\* _get_contact_state: (asked_form, reminder_count); no contact is ever received
RECURSIVE ReminderCount(_, _)
ReminderCount(chat_history, k) ==
    IF k = 0 \/ chat_history[k].form_block THEN 0
    ELSE ReminderCount(chat_history, k - 1)
         + (IF chat_history[k].reminder /\ HistoryAskedForm(SubSeq(chat_history, 1, k - 1))
            THEN 1 ELSE 0)

\* update_order_state_from_turn
update_order_state_from_turn(context) ==
    LET n == context.user_message
        state == context.order_state
        entities == context.intent_entities
        code == primary_code(n)
    IN  Let(
            IF entities.skus # <<>> THEN entities.skus
            ELSE IF extract_skus(n) # <<>> THEN extract_skus(n)
            ELSE IF code # "" /\ ~IsDCode(code) THEN <<code>>
            ELSE <<>>
        , LAMBDA skus :
    LET selected_sku == IF skus # <<>> THEN skus[1]
                        ELSE IF context.items # <<>> /\ context.intent_label = "CODE_LOOKUP"
                        THEN context.items[1]
                        ELSE state.selected_sku
    IN  Let(
            IF entities.product_group # "" THEN Upper(entities.product_group)
            ELSE IF detect_product_group(n) # None THEN detect_product_group(n)
            ELSE ""
        , LAMBDA product_group :
    LET selected_group == IF product_group # "" THEN product_group ELSE state.selected_group
        quantity0 == IF entities.quantity # NoNumber THEN entities.quantity
                     ELSE extract_quantity(n)
    IN  Let(
            IF /\ quantity0 = NoNumber
               /\ is_pure_quantity_message(n)
               /\ (selected_sku # "" \/ selected_group # "")
            THEN parse_pure_quantity_value(n) ELSE quantity0
        , LAMBDA quantity :
    LET robot == InText(n, <<"robot">>)
        hand == InText(n, <<"tay">>) \/ InText(n, <<"hand">>)
    IN  [state EXCEPT
            !.selected_sku = selected_sku,
            !.selected_group = selected_group,
            !.quantity = IF quantity # NoNumber THEN quantity ELSE @,
            !.hand_or_robot = IF robot THEN "ROBOT" ELSE IF hand THEN "HAND" ELSE @,
            !.hand_or_robot_source = IF robot \/ hand THEN "USER" ELSE @])))

\* the items of RELATED_CATEGORIES shown with the main item
RelatedItems(context) ==
    LET main_item == context.items[1]
        target_amp == IF Item(main_item).amp # "" THEN Item(main_item).amp
                      ELSE context.order_state.last_constraints.amp
        target_system == Item(main_item).system
        keep(code) ==
            /\ Item(code).related
            /\ (target_amp = "" \/ Item(code).amp = "" \/ Item(code).amp = target_amp)
            /\ Item(code).system = target_system
    IN  Take(SelectSeq(CatalogCodes, keep), 6)

ResetIntents == {"PRODUCT_LOOKUP", "TYPE_SWITCH", "ACCESSORY_LOOKUP", "ACCESSORY_BUNDLE_LOOKUP"}
ListIntents == {"LIST", "LIST_REQUEST"}

RemindContact_without_waiting(waiting, wanted, ask, reminder_count, info, priced) ==
    wanted /\ ~ask /\ reminder_count < 1 /\ ~info /\ ~priced

\* should_remind_contact: "waiting_for_contact and (buy_intent or is_close_intent)
\* and not should_ask_type and reminder_count < 1 and not is_info_query and not
\* is_info_only", then False "if is_asking_price or is_availability_query"
RemindContact(waiting, wanted, ask, reminder_count, info, priced) ==
    /\ waiting
    /\ wanted
    /\ ~ask
    /\ reminder_count < 1
    /\ ~info
    /\ ~priced

\* the assignments to should_show_form after update_order_state_from_turn: ready
\* is "has_selected and quantity_present and contact_missing and not is_single_unit
\* and not is_info_only", wanted "buy_intent or is_close_intent or request_contact"
ShowForm(ready, wanted, next_action, priced, quantity_reply) ==
    IF quantity_reply /\ ready THEN TRUE
    ELSE ready /\ wanted /\ next_action # "ASK_FOR_SKU_OR_GROUP" /\ ~priced

\* _step_context_guard, bulk_threshold being what get_bulk_qty_threshold returns
context_guard(context, bulk_threshold) ==
    LET n == context.user_message
        intent == context.intent_label
        labelled == intent # ""
        next_action == context.next_action
        items == context.items
        chat_history == context.chat_history
    IN  Let(is_availability_query(n), LAMBDA availability :
    LET single_unit == is_single_unit_request(n)
        signal == \/ InWords(n, LISTING_RE)
                  \/ CODE_RE(n)
                  \/ InWords(n, RELATED_QUERY_RE)
                  \/ extract_quantity(n) # NoNumber
    IN  Let((context.is_info_only \/ is_info_only_query(n)) /\ ~signal, LAMBDA info_only0 :
    LET related0 == InWords(n, RELATED_QUERY_RE) /\ ~availability
        info_query == InWords(n, INFO_RE)
        price0 == context.is_asking_price \/ InWords(n, PRICE_RE)
        close0 == context.buy_intent \/ InWords(n, CLOSE_INTENT_RE) \/ price0
        has_asked_type == HistoryAskedType(chat_history) \/ context.order_state.asked_hand_robot
        has_asked_form == HistoryAskedForm(chat_history)
                          \/ context.order_state.asked_contact_form
        has_contact_info == context.order_state.contact # ""
        has_answered_type == InWords(n, TYPE_ANSWER_RE)
        may_ask == ~has_asked_type /\ ~has_answered_type
        ask0 == may_ask /\ ~related0 /\ ~availability /\ ~info_query /\ ~info_only0
        code0 == context.has_code_query \/ CODE_RE(n)
        render0 == IF availability THEN items # <<>>
                   ELSE /\ ~info_only0
                        /\ \/ related0
                           \/ code0
                           \/ InWords(n, LISTING_RE)
                           \/ InWords(n, PRODUCT_INFO_RE)
        \* the block under "if context.intent_label"
        info_only == info_only0 \/ (labelled /\ context.intent_topic = "origin")
        close1 == close0 \/ (labelled /\ context.buy_intent)
        price1 == price0 \/ (labelled /\ context.intent_topic = "commercial")
        code1 == code0 \/ (labelled /\ context.intent_entities.skus # <<>>)
        ask1 == IF ~labelled THEN ask0
                ELSE IF intent = "PRODUCT_AVAILABILITY" /\ context.missing_type THEN may_ask
                ELSE IF next_action = "ASK_HAND_VS_ROBOT_ONCE" THEN may_ask
                ELSE IF /\ next_action \in {"ANSWER_ONLY", "ASK_FOR_SKU_OR_GROUP",
                                            "REQUEST_CONTACT_FORM"}
                        /\ intent # "PRODUCT_AVAILABILITY"
                     THEN FALSE
                ELSE ask0
        priced == price1 \/ availability \/ context.intent_topic = "commercial"
        render1 == IF ~labelled THEN render0
                   ELSE IF info_only /\ intent \notin ListIntents THEN FALSE
                   ELSE IF priced /\ items # <<>>
                        THEN code1 \/ context.order_state.selected_sku # ""
                   ELSE IF next_action \in {"ASK_FOR_SKU_OR_GROUP", "REQUEST_CONTACT_FORM",
                                            "COMMERCIAL_NEUTRAL_REPLY"}
                        THEN FALSE
                   ELSE render0
        related1 == related0
                    /\ ~(labelled /\ intent = "CODE_LOOKUP" /\ ~InWords(n, COMPATIBILITY_RE))
        related2 == \/ related1
                    \/ /\ intent # "CODE_LOOKUP"
                       /\ items # <<>>
                       /\ (InText(n, <<"bec">>) \/ InText(n, <<"tip">>))
    IN  Let(update_order_state_from_turn(context), LAMBDA state0 :
    LET assume_hand == intent \in ListIntents /\ state0.hand_or_robot = ""
        order_state ==
            [state0 EXCEPT
                !.hand_or_robot = IF assume_hand THEN "HAND" ELSE @,
                !.hand_or_robot_source = IF assume_hand /\ @ = "" THEN "ASSUMED_DEFAULT" ELSE @]
        has_selected == order_state.selected_sku # "" \/ order_state.selected_group # ""
        quantity_present == order_state.quantity # NoNumber
        contact_missing == order_state.contact = ""
        waiting == (HistoryAskedForm(chat_history) /\ ~has_contact_info)
                   \/ (order_state.asked_contact_form /\ contact_missing)
        quantity_value == IF order_state.quantity \notin {NoNumber, Some(0)}
                          THEN order_state.quantity
                          ELSE context.intent_entities.quantity
        bulk == BulkOrder(bulk_threshold, quantity_value)
        request_contact == context.request_contact \/ bulk
        ready == /\ has_selected
                 /\ quantity_present
                 /\ contact_missing
                 /\ ~single_unit
                 /\ ~info_only
        form0 == ShowForm(ready, context.buy_intent \/ close1 \/ request_contact, next_action,
                          price1 \/ availability,
                          is_pure_quantity_message(n) \/ is_quantity_followup_message(n))
        remind0 == RemindContact(waiting, context.buy_intent \/ close1, ask1,
                                 ReminderCount(chat_history, Len(chat_history)),
                                 info_query \/ info_only, price1 \/ availability)
        render2 == IF intent = "CODE_LOOKUP" THEN items # <<>> ELSE render1
        ask2 == IF priced THEN (items = <<>> /\ may_ask)
                ELSE IF intent = "CODE_LOOKUP" THEN FALSE
                ELSE ask1
        reset == intent \in ResetIntents
        related3 == IF intent \in {"ACCESSORY_LOOKUP", "ACCESSORY_BUNDLE_LOOKUP"} THEN TRUE
                    ELSE IF reset THEN FALSE ELSE related2
        availability1 == availability /\ ~reset
        ask3 == ask2 /\ ~reset /\ intent \notin ListIntents
        render3 == reset \/ render2
    IN  Let(
            IF intent = "ACCESSORY_BUNDLE_LOOKUP" THEN context.related_items
            ELSE IF items # <<>> /\ related3 /\ ~availability1 THEN RelatedItems(context)
            ELSE <<>>
        , LAMBDA related_items :
    LET all_items == merge_unique(items \o related_items, <<>>)
        fresh(code) == code \notin SeqSet(context.previous_codes)
        display_items ==
            IF ~render3 THEN <<>>
            ELSE IF context.previous_codes # <<>> /\ ~InWords(n, REPEAT_REQUEST_RE)
                 THEN SelectSeq(all_items, fresh)
            ELSE all_items
    IN  [context EXCEPT
            !.order_state = order_state,
            !.intent_entities.collect_contact = @ \/ bulk,
            !.request_contact = request_contact,
            !.is_asking_related = related3,
            !.is_availability_query = availability1,
            !.is_info_only = info_only,
            !.is_asking_price = price1 /\ ~reset,
            !.is_close_intent = close1 /\ ~reset,
            !.has_code_query = code1 \/ order_state.selected_sku # "",
            !.has_asked_type = has_asked_type,
            !.has_asked_form = has_asked_form,
            !.has_contact_info = has_contact_info,
            !.missing_sku = @ /\ ~has_selected,
            !.missing_quantity = @ /\ ~quantity_present,
            !.missing_contact = @ /\ contact_missing,
            !.should_show_form = form0 /\ ~reset,
            !.should_remind_contact = remind0 /\ ~reset,
            !.should_ask_type = ask3 /\ items = <<>>,
            !.should_render_products = render3,
            !.related_items = related_items,
            !.display_items = display_items]))))

\* _step_context_guard in the service
step_context_guard(context) == context_guard(context, get_bulk_qty_threshold(NoNumber, {}))

(***************************************************************************)
(* _step_generation.  The reply of the answer generator is one of          *)
(* LLMAnswers: whether the call raises, whether the text is empty once     *)
(* stripped, whether it holds one of the                                   *)
(* closing keywords of has_technical_closing_line (kw), an accessory       *)
(* invitation (invite), and the catalogue codes it names (codes).  It      *)
(* never holds the hand-or-robot question, the contact form or a reminder  *)
(* of its own.                                                             *)
(***************************************************************************)
LLMAnswers ==
    {[raises |-> FALSE, empty |-> FALSE, kw |-> FALSE, invite |-> FALSE, codes |-> <<>>],
     [raises |-> FALSE, empty |-> FALSE, kw |-> TRUE, invite |-> TRUE, codes |-> <<>>],
     [raises |-> FALSE, empty |-> FALSE, kw |-> FALSE, invite |-> FALSE, codes |-> <<"004002">>],
     [raises |-> FALSE, empty |-> TRUE, kw |-> FALSE, invite |-> FALSE, codes |-> <<>>],
     [raises |-> TRUE, empty |-> FALSE, kw |-> FALSE, invite |-> FALSE, codes |-> <<>>]}

RECURSIVE SortByMention(_, _)
\* stable sort of the codes by descending score, score a function of the code
SortByMention(score, codes) ==
    IF codes = <<>> THEN <<>>
    ELSE LET best == CHOOSE i \in 1..Len(codes) :
                        /\ \A j \in 1..Len(codes) : score[codes[j]] <= score[codes[i]]
                        /\ \A j \in 1..(i - 1) : score[codes[j]] < score[codes[i]]
         IN  <<codes[best]>>
             \o SortByMention(score, SelectSeq(codes, LAMBDA c : c # codes[best]))

\* the items retrieve_relevant_items finds in a text that names each of the
\* codes once per occurrence in the list and, when bec, holds the word "bec"
Mentions(codes, bec) ==
    Let(
            [c \in SeqSet(CatalogCodes) |->
                500 * Len(SelectSeq(codes, LAMBDA x : x = c))
                + (IF bec /\ Item(c).group = "TIP" THEN 500 ELSE 0)]
        , LAMBDA score :
    Take(SortByMention(score, SelectSeq(CatalogCodes, LAMBDA c : score[c] > 400)), 3))

\* body names the text the answer starts from: the template or rule text of the
\* route, the generator's reply, a fallback sentence, or "" for no text
Answer(route, invite, form_block, type_question, mentions) ==
    [route |-> route, body |-> route, invite |-> invite, form_block |-> form_block,
     type_question |-> type_question, reminder |-> FALSE, mentions |-> mentions]

\* answer.strip() or "Da Em ghi nhan yeu cau va se phan hoi Anh/Chi ngay a.": none of
\* the removers of the post-processing matches the fallback sentence, and it holds
\* no closing keyword, invitation or code
StripOrFallback(llm) == IF llm.empty THEN "fallback" ELSE "reply"

\* the answer text is the empty string
IsEmptyAnswer(answer) ==
    /\ answer.body = ""
    /\ ~answer.invite
    /\ ~answer.form_block
    /\ ~answer.type_question
    /\ ~answer.reminder
    /\ answer.mentions = <<>>

\* get_selling_scope_response: the next of the three templates
SELLING_SCOPE_TEMPLATES == 3
NextSellingScopeVariant(order_state) ==
    IF order_state.selling_scope_variant = NoNumber THEN 0
    ELSE (order_state.selling_scope_variant[1] + 1) % SELLING_SCOPE_TEMPLATES

\* the type-only route
GenerateTypeOnly(context) ==
    LET n == context.user_message
        mode == IF InText(n, <<"robot">>) THEN "ROBOT" ELSE "HAND"
        items == context.items
        of_mode(c) == Item(c).type = mode
    IN  Let(
            IF SelectSeq(items, of_mode) # <<>> THEN SelectSeq(items, of_mode)
            ELSE items
        , LAMBDA filtered0 :
    LET has_amp(c) == Item(c).amp # ""
        target_amp == IF context.order_state.last_constraints.amp # ""
                      THEN context.order_state.last_constraints.amp
                      ELSE IF SelectSeq(items, has_amp) # <<>>
                           THEN Item(SelectSeq(items, has_amp)[1]).amp
                      ELSE ""
        of_amp(c) == Item(c).amp = target_amp
        filtered == IF target_amp # "" /\ SelectSeq(filtered0, of_amp) # <<>>
                    THEN SelectSeq(filtered0, of_amp) ELSE filtered0
    IN  [context EXCEPT
            !.order_state = [@ EXCEPT !.hand_or_robot = mode],
            !.answer = IF items # <<>>
                       THEN Answer("type_switch", FALSE, FALSE, FALSE,
                                   Mentions(Take(filtered, 2), FALSE))
                       ELSE Answer("type_switch_no_cache", FALSE, FALSE, FALSE, <<>>)])

\* the rule-rendered accessory bundle: render_accessory_lookup
GenerateBundle(context) ==
    LET anchor == context.items[1]
        required == context.intent_entities.required_categories
        rendered(c) == \E i \in 1..Len(required) :
                          Item(c).category = IF required[i] = "TIP_BODY" THEN "TIPBODY"
                                             ELSE required[i]
        shown == SelectSeq(context.related_items, rendered)
        unserved(group) ==
            ~\E i \in 1..Len(context.related_items) :
                Item(context.related_items[i]).category
                    = IF group = "TIP_BODY" THEN "TIPBODY" ELSE group
        missing == context.intent_entities.missing_categories # <<>>
                   \/ SelectSeq(required, unserved) # <<>>
    IN  [context EXCEPT
            !.answer = Answer("accessory_bundle_rule", FALSE, FALSE, missing,
                              Mentions(<<anchor>> \o shown,
                                       "TIP_BODY" \in SeqSet(required)
                                           \cup SeqSet(context.intent_entities.missing_categories)))]

LookupIntents ==
    {"PRODUCT_LOOKUP", "CODE_LOOKUP", "ACCESSORY_LOOKUP", "ACCESSORY_BUNDLE_LOOKUP", "LIST",
     "LIST_REQUEST"}

\* the display_items each lookup intent shows (the block before the commercial route)
NarrowDisplay(context) ==
    LET intent == context.intent_label
        shown == CASE intent = "PRODUCT_LOOKUP" -> Take(context.items, 2)
                   [] intent = "CODE_LOOKUP" -> Take(context.items, 3)
                   [] intent = "ACCESSORY_LOOKUP" -> Take(context.related_items, 4)
                   [] intent = "ACCESSORY_BUNDLE_LOOKUP" ->
                          merge_unique(context.related_items, <<>>)
                   [] OTHER -> Take(context.items, 4)
    IN  IF intent \in LookupIntents
        THEN [context EXCEPT
                !.display_items = shown,
                !.should_render_products = @ /\ shown # <<>>]
        ELSE context

\* the quantity route: the generator's text, or the fixed sentence when it fails
GenerateQuantity(context, llm) ==
    LET selected_sku == context.order_state.selected_sku
        \* except Exception: answer = "" ; an empty answer is replaced by one of
        \* the three fixed sentences, which names the selected SKU if there is one
        fixed == llm.raises \/ llm.empty
        mentions == IF fixed THEN Mentions(<<selected_sku>>, FALSE)
                    ELSE Mentions(llm.codes, FALSE)
    IN  [context EXCEPT
            !.answer = [Answer("quantity_followup_llm", ~fixed /\ llm.invite,
                               context.should_show_form, FALSE, mentions)
                        EXCEPT !.body = IF fixed THEN "quantity_fixed" ELSE "reply"]]

\* the generator route with its post-processing
GenerateLLM(context, llm) ==
    LET intent == context.intent_label
        commercial == \/ context.is_asking_price
                      \/ context.is_availability_query
                      \/ context.intent_topic = "commercial"
    IN  Let(match_items_by_codes(llm.codes), LAMBDA named :
    LET adopt == context.display_items = <<>> /\ named # <<>>
        display_items == IF adopt THEN named ELSE context.display_items
        render == context.should_render_products \/ adopt
        ask == context.should_ask_type /\ ~context.has_asked_type
               /\ intent \notin (ListIntents \cup {"ACCESSORY_BUNDLE_LOOKUP"})
        \* append_form_if_missing adds the form, but without a reminder due
        \* remove_contact_reminder then drops its "lien he" lines, so that
        \* has_form_block holds of the final text only through the reminder line
        block == context.should_remind_contact
        \* append_quantity_question names the target SKU
        asks_quantity == /\ intent = "CODE_LOOKUP"
                         /\ context.buy_intent
                         /\ context.missing_quantity
        target == IF asks_quantity /\ context.order_state.selected_sku # ""
                  THEN <<context.order_state.selected_sku>>
                  ELSE <<>>
        closing == intent \in TECHNICAL_INTENTS /\ ~context.should_show_form /\ ~commercial
        invite == llm.invite \/ (closing /\ ~llm.kw)
        \* ensure_product_cards adds the cards unless the text names a shown item
        cards == IF commercial /\ SeqSet(display_items) \cap SeqSet(llm.codes) = {}
                 THEN display_items
                 ELSE <<>>
        n == context.user_message
        should_repeat_products == InWords(n, REPEAT_REQUEST_RE)
        is_listing == InWords(n, LISTING_RE)
        asked_codes == extract_codes(n) # <<>> \/ CODE_RE(n)
        \* prune_repeated_product_lines drops the lines that name codes
    IN  Let(
            /\ render
            /\ intent # "ACCESSORY_BUNDLE_LOOKUP"
            /\ context.previous_codes # <<>>
            /\ ~should_repeat_products
            /\ (is_listing \/ ~asked_codes)
        , LAMBDA prune :
    LET dropped(codes) == /\ prune
                          /\ codes # <<>>
                          /\ (is_listing \/ SeqSet(codes) \subseteq SeqSet(context.previous_codes))
        kept(codes) == IF dropped(codes) THEN <<>> ELSE codes
        kept_cards == SelectSeq(cards, LAMBDA c : ~dropped(<<c>>))
        \* the lines of the text that name no code
        other_lines == \/ llm.codes = <<>>
                       \/ ask
                       \/ context.should_show_form
                       \/ context.should_remind_contact
                       \/ closing
                       \/ commercial
                       \/ (asks_quantity /\ target = <<>>)
        emptied == prune /\ ~other_lines /\ dropped(llm.codes) /\ kept(target) = <<>>
        repeat_block == /\ render
                        /\ intent # "ACCESSORY_BUNDLE_LOOKUP"
                        /\ context.previous_codes # <<>>
                        /\ display_items = <<>>
                        /\ ~should_repeat_products
    IN  Let(
            IF repeat_block \/ emptied
            THEN Answer("repeat_block", FALSE, FALSE, FALSE, <<>>)
            ELSE [Answer("llm", invite, block, ask,
                         Mentions(kept(llm.codes) \o kept(target) \o kept_cards, FALSE))
                  EXCEPT !.reminder = context.should_remind_contact,
                         !.body = StripOrFallback(llm)]
        , LAMBDA answer :
    IF llm.raises
        THEN [context EXCEPT !.answer = Answer("exception", FALSE, FALSE, FALSE, <<>>)]
        ELSE [context EXCEPT
                !.display_items = display_items,
                !.should_render_products = render,
                !.answer = answer,
                !.asked_form = answer.form_block,
                !.reminded_contact = answer.reminder])))

\* _step_generation
step_generation(context, llm) ==
    LET n == context.user_message
        intent == context.intent_label
        next_action == context.next_action
        order_state == context.order_state
    IN  Let(NarrowDisplay(context), LAMBDA narrowed :
    LET commercial == \/ context.is_asking_price
                      \/ context.is_availability_query
                      \/ context.intent_topic = "commercial"
        target == IF order_state.selected_sku # "" THEN order_state.selected_sku
                  ELSE order_state.selected_group
        fixed(route, type_question, mentions) ==
            [narrowed EXCEPT !.answer = Answer(route, FALSE, FALSE, type_question, mentions)]
    IN  IF is_ask_selling_scope(n)
        THEN [context EXCEPT
                !.order_state = [@ EXCEPT !.selling_scope_variant =
                                    Some(NextSellingScopeVariant(order_state))],
                !.answer = Answer("ask_selling_scope", FALSE, FALSE, FALSE,
                                  Mentions(<<>>, TRUE))]
        ELSE IF is_single_unit_request(n)
        THEN [context EXCEPT !.answer = Answer("no_retail", FALSE, FALSE, FALSE, <<>>)]
        ELSE IF intent = "SLOT_FILL_AMP"
        THEN [context EXCEPT
                !.answer = Answer("slot_fill_need_anchor", FALSE, FALSE, FALSE, <<>>)]
        ELSE IF is_type_only_message(n) THEN GenerateTypeOnly(context)
        ELSE IF intent = "ACCESSORY_BUNDLE_LOOKUP" /\ context.items = <<>>
        THEN [context EXCEPT
                !.answer = Answer("accessory_bundle_need_anchor", TRUE, FALSE, FALSE, <<>>)]
        ELSE IF intent = "ACCESSORY_BUNDLE_LOOKUP"
                /\ context.intent_entities.required_categories = <<>>
        THEN [context EXCEPT
                !.answer = Answer("accessory_bundle_need_parts", TRUE, FALSE, FALSE, <<>>)]
        ELSE IF intent = "ACCESSORY_BUNDLE_LOOKUP"
                /\ (context.related_items # <<>>
                    \/ context.intent_entities.missing_categories # <<>>)
        THEN GenerateBundle(context)
        ELSE IF commercial /\ context.items = <<>>
                /\ intent \notin (LookupIntents \ {"ACCESSORY_BUNDLE_LOOKUP"})
        THEN fixed("commercial_no_match", context.should_ask_type, <<>>)
        ELSE IF context.is_info_only THEN fixed("info_only", FALSE, <<>>)
        ELSE IF is_pure_quantity_message(n) \/ is_quantity_followup_message(n)
        THEN GenerateQuantity(narrowed, llm)
        ELSE IF /\ intent \notin {"PRODUCT_AVAILABILITY", "CODE_LOOKUP"}
                /\ ~commercial
                /\ context.missing_quantity
                /\ (target # "" \/ context.has_code_query)
        THEN fixed("ask_quantity", FALSE, Mentions(<<order_state.selected_sku>>, FALSE))
        ELSE IF next_action = "ASK_FOR_SKU_OR_GROUP" /\ intent # "CODE_LOOKUP"
        THEN fixed("ask_sku_group", FALSE, Mentions(<<>>, TRUE))
        ELSE IF next_action = "ASK_HAND_VS_ROBOT_ONCE" /\ intent # "CODE_LOOKUP"
                /\ context.should_ask_type
        THEN fixed("ask_type", TRUE, <<>>)
        ELSE IF next_action = "COMMERCIAL_NEUTRAL_REPLY" /\ intent # "CODE_LOOKUP"
        THEN fixed("commercial_reply", FALSE,
                   Mentions(Take(IF narrowed.display_items # <<>> THEN narrowed.display_items
                                 ELSE context.items, 3), FALSE))
        ELSE IF next_action = "REQUEST_CONTACT_FORM" /\ intent # "CODE_LOOKUP"
                /\ context.should_show_form
        THEN [narrowed EXCEPT
                !.answer = Answer("request_contact", FALSE, TRUE, FALSE, <<>>)]
        ELSE IF next_action = "REQUEST_CONTACT_FORM" /\ intent # "CODE_LOOKUP"
                /\ context.missing_sku
        THEN fixed("ask_sku_group", FALSE, Mentions(<<>>, TRUE))
        ELSE IF next_action = "REQUEST_CONTACT_FORM" /\ intent # "CODE_LOOKUP"
                /\ context.missing_quantity
        THEN fixed("ask_quantity", FALSE, <<>>)
        ELSE IF InWords(n, INFO_RE) THEN fixed("info_query", FALSE, <<>>)
        ELSE IF /\ narrowed.should_render_products
                /\ narrowed.display_items = <<>>
                /\ context.previous_codes # <<>>
        THEN fixed("repeat_block", FALSE, <<>>)
        ELSE GenerateLLM(narrowed, llm))

(***************************************************************************)
(* _step_finalize and the short-memory update.                             *)
(***************************************************************************)
\* build_pending_action_from_context
build_pending_action_from_context(context) ==
    LET found == IF context.display_items # <<>> THEN <<context.display_items[1]>>
                 ELSE IF context.items # <<>> THEN <<context.items[1]>>
                 ELSE find_item_by_selected_sku(context.order_state.selected_sku)
        anchor_group == Item(found[1]).group
        last_constraints == context.order_state.last_constraints
        differs(part) == part # anchor_group
    IN  IF found = <<>> THEN EmptyPendingAction
        ELSE [nonempty |-> TRUE,
              action |-> "ACCESSORY_BUNDLE_LOOKUP",
              required_parts |-> SelectSeq(DEFAULT_BUNDLE_CATEGORIES, differs),
              anchor_sku |-> found[1],
              product_group |-> anchor_group,
              constraints |->
                  [product_group |-> "",
                   amp |-> IF context.intent_entities.amp # "" THEN context.intent_entities.amp
                           ELSE last_constraints.amp,
                   system |-> IF context.intent_entities.system # ""
                              THEN context.intent_entities.system
                              ELSE last_constraints.system]]

BundlePendingRequest_forgets_done(context, prev_pending) ==
    LET entities == context.intent_entities
        required_parts == entities.required_categories
        prev_required == prev_pending.required_parts
        base_required == IF /\ prev_required # <<>>
                            /\ SeqSet(required_parts) \subseteq SeqSet(prev_required)
                         THEN prev_required ELSE required_parts
        found(part) == part \notin SeqSet(entities.missing_categories)
        done_parts == SelectSeq(required_parts, found)
        todo(part) == part \notin SeqSet(done_parts)
    IN  [required_parts |-> base_required,
         missing_fields |-> (IF base_required # <<>> /\ entities.amp = ""
                             THEN <<"AMP">> ELSE <<>>)
                            \o (IF base_required # <<>> /\ entities.system = ""
                                THEN <<"SYSTEM">> ELSE <<>>),
         done_parts |-> done_parts,
         todo_parts |-> SelectSeq(base_required, todo)]

\* the pending_request an ACCESSORY_BUNDLE_LOOKUP turn leaves
BundlePendingRequest(context, prev_pending) ==
    LET entities == context.intent_entities
        required_parts == entities.required_categories
        prev_required == prev_pending.required_parts
        base_required == IF /\ prev_required # <<>>
                            /\ SeqSet(required_parts) \subseteq SeqSet(prev_required)
                         THEN prev_required ELSE required_parts
        found(part) == part \notin SeqSet(entities.missing_categories)
        done_parts == merge_unique(prev_pending.done_parts, SelectSeq(required_parts, found))
        todo(part) == part \notin SeqSet(done_parts)
    IN  [required_parts |-> base_required,
         missing_fields |-> (IF base_required # <<>> /\ entities.amp = ""
                             THEN <<"AMP">> ELSE <<>>)
                            \o (IF base_required # <<>> /\ entities.system = ""
                                THEN <<"SYSTEM">> ELSE <<>>),
         done_parts |-> done_parts,
         todo_parts |-> SelectSeq(base_required, todo)]

AmpWritten_whenever_known(context) == context.intent_entities.amp # ""

\* the amp of the entities goes into last_user_constraints: the key is set and
\* the utterance holds an amp pattern
AmpWritten(context) ==
    context.intent_entities.amp # "" /\ AMP_ANY_RE(context.user_message)

\* update_short_memory_from_context at time t: the memory object after the update
update_short_memory_from_context(context, t) ==
    LET memory == context.short_memory
        order_state == context.order_state
        found == IF context.items # <<>> THEN <<context.items[1]>>
                 ELSE IF context.display_items # <<>> THEN <<context.display_items[1]>>
                 ELSE find_item_by_selected_sku(order_state.selected_sku)
        anchor_item == found[1]
        is_robot == IF order_state.hand_or_robot = "ROBOT" THEN TRUE
                    ELSE IF order_state.hand_or_robot = "HAND" THEN FALSE
                    ELSE Item(anchor_item).type = "ROBOT"
        invited == /\ context.intent_label \in TECHNICAL_INTENTS
                   /\ ~context.should_show_form
                   /\ ~context.is_asking_price
                   /\ ~context.is_availability_query
                   /\ context.answer.invite
    IN  Let(build_pending_action_from_context(context), LAMBDA new_pending :
    LET pending_action ==
            IF context.resolved_request.clear_pending_action THEN EmptyPendingAction
            ELSE IF invited /\ new_pending.nonempty THEN new_pending
            ELSE memory.pending_action
    IN  [memory EXCEPT
            !.last_intent = context.intent_label,
            !.last_topic = context.intent_topic,
            !.last_results = IF context.display_items # <<>> THEN context.display_items ELSE @,
            !.last_anchor = IF found = <<>> THEN @
                            ELSE [sku |-> anchor_item,
                                  cat |-> Item(anchor_item).group,
                                  line_amp |-> Item(anchor_item).amp,
                                  is_robot |-> BoolStr(is_robot),
                                  name |-> Item(anchor_item).name],
            !.pending_request = IF context.intent_label = "ACCESSORY_BUNDLE_LOOKUP"
                                THEN BundlePendingRequest(context, @)
                                ELSE EmptyPendingRequest,
            !.pending_action = pending_action,
            !.last_user_constraints =
                [@ EXCEPT
                    !.amp = IF AmpWritten(context) THEN context.intent_entities.amp ELSE @,
                    !.system = IF context.intent_entities.system # ""
                               THEN context.intent_entities.system ELSE @],
            !.last_commercial_context =
                [quantity |-> order_state.quantity,
                 contact_collected |-> order_state.contact # "",
                 show_form |-> context.should_show_form],
            !.updated_at = Some(t)])

StoresAskedType_never(context) == FALSE

\* the turn asked for the torch type: the flag of the guard, or the question in
\* the answer text
StoresAskedType(context) ==
    \/ context.should_ask_type
    \/ (context.answer.type_question /\ context.answer.route # "accessory_bundle_rule")

\* _step_finalize at time t
step_finalize(context, t) ==
    LET state == context.order_state
        entities == context.intent_entities
    IN  Let(update_short_memory_from_context(context, t), LAMBDA memory_after :
    LET source_items == IF context.display_items # <<>> THEN context.display_items
                        ELSE context.items
    IN  Let(extract_lookup_constraints(context.user_message), LAMBDA inferred :
    LET list_intent == context.intent_label \in ListIntents
        amp == IF entities.amp # "" THEN entities.amp
               ELSE IF list_intent THEN inferred.amp ELSE ""
        has_system(c) == Item(c).system # ""
        system == IF SelectSeq(source_items, has_system) = <<>> THEN ""
                  ELSE Item(SelectSeq(source_items, has_system)[1]).system
        shown == source_items # <<>>
    IN  [context EXCEPT
            !.short_memory = memory_after,
            !.order_state = [state EXCEPT
                !.asked_hand_robot = @ \/ StoresAskedType(context),
                !.asked_contact_form = @ \/ context.asked_form,
                !.has_short_memory = TRUE,
                !.short_memory = memory_after,
                !.short_memory_ts = Some(t),
                !.last_intent = IF shown THEN context.intent_label ELSE @,
                !.last_context_codes = IF shown THEN Take(source_items, 4) ELSE @,
                !.last_group = IF ~shown THEN @
                               ELSE IF entities.product_group = "" /\ list_intent
                                    THEN inferred.product_group
                               ELSE entities.product_group,
                !.last_constraints = IF shown /\ (amp # "" \/ system # "")
                                     THEN [product_group |-> "", amp |-> amp, system |-> system]
                                     ELSE @]]))

(***************************************************************************)
(* The chat service: one session of the store, the clock, and the turn     *)
(* that app.chat runs through the pipeline.  The order_state dict that     *)
(* get_order_state hands out is a shallow copy: its nested short_memory is *)
(* the very dict the store holds.  normalize_order_state and               *)
(* normalize_short_memory pass that dict on to context.short_memory while  *)
(* its timestamp is live, and update_short_memory_from_context writes into *)
(* it in place; arg is the caller's order_state as the caller sees it, and *)
(* order_state0 is the value it had when handle_message was called.        *)
(***************************************************************************)
MaxTurns == 2
\* the instants at which the clock is read
Instants == {0, SHORT_MEMORY_TTL_SEC, SHORT_MEMORY_TTL_SEC + 1}

Reply(intent, has_buy, topic, next_action, collect) ==
    [raises |-> FALSE, is_dict |-> TRUE, intent |-> intent, has_buy_intent |-> has_buy,
     buy_intent |-> has_buy, topic |-> topic, next_action |-> next_action, missing |-> {},
     collect_contact |-> collect, is_robot |-> None]
\* what the intent generator answers in the chat service
Replies ==
    {NoReply,
     GeneratorRaises,
     Reply("LIST", TRUE, "product", "ESCALATE", FALSE),
     Reply("PRICE_QUERY", FALSE, "commercial", "COMMERCIAL_NEUTRAL_REPLY", TRUE)}
PlainAnswer ==
    [raises |-> FALSE, empty |-> FALSE, kw |-> FALSE, invite |-> FALSE, codes |-> <<>>]

VARIABLES now, store, history, turns, pc, run, arg, order_state0, ctx, inputs, first, call

\* the server with several sessions: the caches of the SessionStore, the requests in
\* progress, the clock add_message and ensure_session read, the number of requests
\* received, and the session the last step was taken for
VARIABLES sessions, summaries, order_states, requests, clock, served, actor

pipelineVars == <<now, store, history, turns, pc, run, arg, order_state0, ctx, inputs, first, call>>
serverVars == <<sessions, summaries, order_states, requests, clock, served, actor>>
vars == <<pipelineVars, serverVars>>

\* SessionStore(DATA_DIR / "sessions.json", max_sessions=3)
max_sessions == 3
MaxRequests == 4
\* the session ids clients send, and the ids uuid4 gives to the requests without one
SessionIds == {"s1", "s2", "s3"}
NewIds == <<"u1", "u2", "u3", "u4", "u5">>
Slots == {1, 2}

NoInputs == [raw |-> NoReply, llm |-> PlainAnswer]
IdleContext == PipelineContext(<<>>, <<>>, EmptyOrderState, default_short_memory)
NoCall ==
    [done |-> FALSE, raw |-> NoReply, bulk_threshold |-> NoNumber,
     before |-> IdleContext, after |-> IdleContext]

Init ==
    /\ now = 0
    /\ store = EmptyOrderState
    /\ history = <<>>
    /\ turns = 0
    /\ pc = "idle"
    /\ run = 1
    /\ arg = EmptyOrderState
    /\ order_state0 = EmptyOrderState
    /\ ctx = IdleContext
    /\ inputs = NoInputs
    /\ first = IdleContext
    /\ call = NoCall
    /\ sessions = {}
    /\ summaries = <<>>
    /\ order_states = <<>>
    /\ requests = [r \in Slots |-> [pc |-> "idle", turn |-> 0, session_id |-> None,
                                    order_state |-> [writer |-> 0,
                                                     short_memory |-> [id |-> 0, writer |-> 0]]]]
    /\ clock = 0
    /\ served = 0
    /\ actor = None

\* the caller's short_memory dict is the one the context works on
Aliased == arg.has_short_memory /\ ~Expired(arg, now)

\* handle_message up to the start of the pipeline
StartContext(user_message) ==
    PipelineContext(user_message, history, arg, normalize_short_memory(arg, now))

\* time passes between two requests; the clock starts at the session's first turn
Elapse(t) ==
    /\ pc = "idle"
    /\ 0 < turns
    /\ turns < MaxTurns
    /\ t > now
    /\ now' = t
    /\ UNCHANGED <<store, history, turns, pc, run, arg, order_state0, ctx, inputs, first, call>>
    /\ UNCHANGED serverVars

\* app.chat reads the session and calls handle_message
HandleMessage(user_message) ==
    /\ pc = "idle"
    /\ turns < MaxTurns
    /\ arg' = store
    /\ order_state0' = store
    /\ ctx' = PipelineContext(user_message, history, store, normalize_short_memory(store, now))
    /\ inputs' = NoInputs
    /\ first' = IdleContext
    /\ run' = 1
    /\ pc' = "intent_detection"
    /\ UNCHANGED <<now, store, history, turns, call>>
    /\ UNCHANGED serverVars

StepIntentDetection(raw) ==
    /\ pc = "intent_detection"
    /\ LET n == ctx.user_message
           route == IntentRoute(n, ctx.short_memory,
                                resolve_request_with_memory(n, parse_user_input(n),
                                                            ctx.short_memory))
       IN  IF run = 1 THEN (route # "generator" => raw = NoReply) ELSE raw = inputs.raw
    /\ LET text == IntentText(raw)
       IN  IF text.raised
           THEN ctx' = ctx /\ pc' = "raised"
           ELSE ctx' = step_intent_detection(ctx, text.raw) /\ pc' = "resource_retrieval"
    /\ inputs' = [inputs EXCEPT !.raw = raw]
    /\ UNCHANGED <<now, store, history, turns, run, arg, order_state0, first, call>>
    /\ UNCHANGED serverVars

\* _step_resource_retrieval; loaded tells whether resource_loader.load() returns the
\* catalogue.  It reads and parses the resource file on every call, and an error
\* it raises leaves the step, AdkAgent.run and handle_message.
StepResourceRetrieval(loaded) ==
    /\ pc = "resource_retrieval"
    \* the replayed call finds the catalogue as the first call did
    /\ run = 2 => loaded
    /\ IF loaded
       THEN ctx' = step_resource_retrieval(ctx) /\ pc' = "context_guard"
       ELSE ctx' = ctx /\ pc' = "raised"
    /\ UNCHANGED <<now, store, history, turns, run, arg, order_state0, inputs, first, call>>
    /\ UNCHANGED serverVars

StepContextGuard ==
    /\ pc = "context_guard"
    /\ ctx' = step_context_guard(ctx)
    /\ pc' = "generation"
    /\ UNCHANGED <<now, store, history, turns, run, arg, order_state0, inputs, first, call>>
    /\ UNCHANGED serverVars

StepGeneration(llm) ==
    /\ pc = "generation"
    /\ IF run = 1
       THEN llm = PlainAnswer \/ step_generation(ctx, llm) # step_generation(ctx, PlainAnswer)
       ELSE llm = inputs.llm
    /\ ctx' = step_generation(ctx, llm)
    /\ inputs' = [inputs EXCEPT !.llm = llm]
    /\ pc' = "finalize"
    /\ UNCHANGED <<now, store, history, turns, run, arg, order_state0, first, call>>
    /\ UNCHANGED serverVars

\* _step_finalize; the memory update reaches the caller's dict and the store's
\* through the shared short_memory
StepFinalize ==
    /\ pc = "finalize"
    /\ ctx' = step_finalize(ctx, now)
    /\ arg' = IF Aliased THEN [arg EXCEPT !.short_memory = ctx'.short_memory] ELSE arg
    /\ store' = IF Aliased THEN [store EXCEPT !.short_memory = ctx'.short_memory] ELSE store
    /\ pc' = "done"
    /\ UNCHANGED <<now, history, turns, run, order_state0, inputs, first, call>>
    /\ UNCHANGED serverVars

\* the user message and the assistant message app.chat adds to the history
HistoryEntry(context) ==
    [user |-> context.user_message,
     type_question |-> context.answer.type_question,
     form_block |-> context.asked_form \/ context.answer.form_block,
     reminder |-> context.reminded_contact \/ context.answer.reminder,
     context_codes |-> context.display_items,
     mentions |-> context.answer.mentions]

\* app.chat after handle_message: the two add_message calls and set_order_state;
\* the request ends and its locals are gone
Persist ==
    /\ pc = "done"
    /\ history' = Append(history, HistoryEntry(ctx))
    /\ store' = ctx.order_state
    /\ turns' = turns + 1
    /\ pc' = "idle"
    /\ run' = 1
    /\ arg' = EmptyOrderState
    /\ order_state0' = EmptyOrderState
    /\ ctx' = IdleContext
    /\ inputs' = NoInputs
    /\ first' = IdleContext
    /\ UNCHANGED <<now, call>>
    /\ UNCHANGED serverVars

\* an exception leaves handle_message: chat ends without add_message or
\* set_order_state, and the server answers the request with an error
Abort ==
    /\ pc = "raised"
    /\ turns' = turns + 1
    /\ pc' = "idle"
    /\ run' = 1
    /\ arg' = EmptyOrderState
    /\ order_state0' = EmptyOrderState
    /\ ctx' = IdleContext
    /\ inputs' = NoInputs
    /\ first' = IdleContext
    /\ UNCHANGED <<now, store, history, call>>
    /\ UNCHANGED serverVars

\* the caller drops the returned context and calls handle_message again with the
\* same message, history, order_state dict, clock and generator outputs
Replay ==
    /\ pc = "done"
    /\ run = 1
    /\ first' = ctx
    /\ run' = 2
    /\ ctx' = StartContext(ctx.user_message)
    /\ pc' = "intent_detection"
    /\ UNCHANGED <<now, store, history, turns, arg, order_state0, inputs, call>>
    /\ UNCHANGED serverVars

Next ==
    \/ \E t \in Instants : Elapse(t)
    \/ \E user_message \in Utterances : HandleMessage(user_message)
    \/ \E raw \in Replies : StepIntentDetection(raw)
    \/ \E loaded \in BOOLEAN : StepResourceRetrieval(loaded)
    \/ StepContextGuard
    \/ \E llm \in LLMAnswers : StepGeneration(llm)
    \/ StepFinalize
    \/ Persist
    \/ Abort
    \/ Replay

Spec == Init /\ [][Next]_vars

(***************************************************************************)
(* _step_intent_detection as a function of its inputs: the utterance, the  *)
(* generator's reply, and the session (order_state, chat_history) the turn *)
(* starts from.  The sessions are a new one and sessions after one turn.   *)
(***************************************************************************)
\* the session after a first turn: handle_message and what app.chat stores
FirstTurn(user_message, raw, llm) ==
    LET start == PipelineContext(user_message, <<>>, EmptyOrderState,
                                 normalize_short_memory(EmptyOrderState, 0))
    IN  Let(
            step_finalize(
                step_generation(
                    step_context_guard(
                        step_resource_retrieval(step_intent_detection(start, raw))),
                    llm),
                0)
        , LAMBDA end :
    [order_state |-> end.order_state, chat_history |-> <<HistoryEntry(end)>>])

ListReply == Reply("LIST", TRUE, "product", "ESCALATE", FALSE)
WithContact(session) == [session EXCEPT !.order_state.contact = "0901234567"]
Sessions ==
    {[order_state |-> EmptyOrderState, chat_history |-> <<>>],
     FirstTurn(<<"mua">>, ListReply, PlainAnswer),
     FirstTurn(<<"cach", "dien">>, NoReply, PlainAnswer),
     WithContact(FirstTurn(<<"004002">>, NoReply, PlainAnswer))}

\* what the generator may answer to the intent prompt
ProposedActions == {"", "answer_only", "ESCALATE", "REQUEST_CONTACT_FORM"}
IntentReplies ==
    {[raises |-> FALSE, is_dict |-> TRUE, intent |-> intent, has_buy_intent |-> buy[1],
      buy_intent |-> buy[2], topic |-> topic, next_action |-> next_action,
      missing |-> missing, collect_contact |-> collect, is_robot |-> None] :
        intent \in {"", "list", "PRODUCT_LOOKUP", "QUANTITY_FOLLOWUP"},
        buy \in {<<FALSE, FALSE>>, <<TRUE, FALSE>>, <<TRUE, TRUE>>},
        topic \in {"", "Commercial"},
        next_action \in ProposedActions,
        missing \in {{}, {"SKU", "phone"}},
        collect \in BOOLEAN}
    \cup {[Reply("PRODUCT_LOOKUP", FALSE, "product", "", FALSE) EXCEPT !.is_robot = type] :
              type \in {"True", "False"}}

StartOf(session, user_message) ==
    PipelineContext(user_message, session.chat_history, session.order_state,
                    normalize_short_memory(session.order_state, 0))

\* the route the turn takes; the generator is asked on the generator route only
RouteOf(context) ==
    IntentRoute(context.user_message, context.short_memory,
                resolve_request_with_memory(context.user_message,
                                            parse_user_input(context.user_message),
                                            context.short_memory))

IntentDetection(before, raw) ==
    /\ ~call.done
    /\ call' = [done |-> TRUE, raw |-> raw, bulk_threshold |-> NoNumber, before |-> before,
                after |-> step_intent_detection(before, raw)]
    /\ UNCHANGED <<now, store, history, turns, pc, run, arg, order_state0, ctx, inputs, first>>
    /\ UNCHANGED serverVars

NextIntent ==
    /\ ~call.done
    /\ \E session \in Sessions, user_message \in Utterances :
           LET before == StartOf(session, user_message)
           IN  \E raw \in IF RouteOf(before) = "generator"
                          THEN IntentReplies \cup {NoReply} ELSE {NoReply} :
                   IntentDetection(before, raw)

SpecIntent == Init /\ [][NextIntent]_vars

(***************************************************************************)
(* _step_context_guard as a function of its inputs: the context the        *)
(* intent and retrieval steps leave (for a session, an utterance and a     *)
(* reply of the intent generator) and the bulk quantity threshold of the   *)
(* environment.                                                            *)
(***************************************************************************)
GuardSessions ==
    Sessions \cup {FirstTurn(<<"004002">>, NoReply, PlainAnswer)}
GuardReplies ==
    {[raises |-> FALSE, is_dict |-> TRUE, intent |-> intent, has_buy_intent |-> buy,
      buy_intent |-> buy, topic |-> topic, next_action |-> next_action,
      missing |-> {}, collect_contact |-> collect, is_robot |-> None] :
        intent \in {"", "list", "PRODUCT_LOOKUP"},
        buy \in BOOLEAN,
        topic \in {"", "Commercial"},
        next_action \in {"", "REQUEST_CONTACT_FORM"},
        collect \in BOOLEAN}
\* the utterances of the turn: those of the chat service, a plain agreement and
\* an availability question that names a quantity
GuardUtterances == Utterances \cup {<<"dong", "y">>, <<"100", "cai", "co", "khong">>}
\* BULK_QTY_THRESHOLD unset, "0" or "100"; a catalogue without or with metadata
EnvValues == {NoNumber, Some(0), Some(100)}
Metadata == {{}, {0, 5000, 9000}}
BulkThresholds ==
    {get_bulk_qty_threshold(env_value, metadata) : env_value \in EnvValues, metadata \in Metadata}

\* the context at the start of _step_context_guard
Retrieved(session, user_message, raw) ==
    step_resource_retrieval(step_intent_detection(StartOf(session, user_message), raw))

ContextGuard(before, raw, bulk_threshold) ==
    /\ ~call.done
    /\ call' = [done |-> TRUE, raw |-> raw, bulk_threshold |-> bulk_threshold,
                before |-> before, after |-> context_guard(before, bulk_threshold)]
    /\ UNCHANGED <<now, store, history, turns, pc, run, arg, order_state0, ctx, inputs, first>>
    /\ UNCHANGED serverVars

NextGuard ==
    /\ ~call.done
    /\ \E session \in GuardSessions, user_message \in GuardUtterances,
          bulk_threshold \in BulkThresholds :
           \E raw \in IF RouteOf(StartOf(session, user_message)) = "generator"
                      THEN GuardReplies \cup {NoReply} ELSE {NoReply} :
               ContextGuard(Retrieved(session, user_message, raw), raw, bulk_threshold)

SpecGuard == Init /\ [][NextGuard]_vars

(***************************************************************************)
(* handle_message as a function of its inputs: the session, the utterance, *)
(* the reply of the intent generator and the answer of the answer          *)
(* generator.  resource_loader.load() reads the catalogue file on every    *)
(* turn, so a session can hold codes of an item the file no longer lists:  *)
(* the stale sessions were stored while item 003003 (a nozzle) was in the  *)
(* file, ahead of the two items it lists now.                              *)
(***************************************************************************)
RemovedCode == "003003"

\* update_short_memory_from_context and build_pending_action_from_context on a turn
\* whose first displayed item was the removed one, the other items following it
\* (others) or not being in the file then
StoredWithRemovedItem(session, others) ==
    LET keep(codes) == IF others THEN codes ELSE <<>>
    IN  [session EXCEPT
            !.order_state.last_context_codes = <<RemovedCode>> \o keep(@),
            !.order_state.short_memory.last_results = <<RemovedCode>> \o keep(@),
            !.order_state.short_memory.last_anchor =
                [@ EXCEPT !.sku = RemovedCode, !.cat = "NOZZLE", !.name = "chup khi 350a"],
            !.order_state.short_memory.pending_action =
                [@ EXCEPT !.anchor_sku = RemovedCode,
                          !.product_group = "NOZZLE",
                          !.required_parts =
                              SelectSeq(DEFAULT_BUNDLE_CATEGORIES, LAMBDA part : part # "NOZZLE")],
            !.chat_history[1].context_codes = <<RemovedCode>> \o keep(@)]

\* the context handle_message returns
TurnEnd(session, user_message, raw, llm) ==
    step_finalize(
        step_generation(
            step_context_guard(Retrieved(session, user_message, raw)),
            llm),
        0)

\* the session after one more turn: what app.chat stores after handle_message
LaterTurn(session, user_message, raw, llm) ==
    Let(TurnEnd(session, user_message, raw, llm), LAMBDA end :
    [order_state |-> end.order_state,
     chat_history |-> Append(session.chat_history, HistoryEntry(end))])

ListedSession == FirstTurn(<<"mua">>, ListReply, PlainAnswer)
\* the listing, then "ok" to the accessories it offers
BundleSession == LaterTurn(ListedSession, <<"ok">>, NoReply, PlainAnswer)
\* the listing, then the torch type: the offered bundle for a robot torch
RobotSession == LaterTurn(ListedSession, <<"robot">>, NoReply, PlainAnswer)
\* an amp line given on the first turn
AmpSession == FirstTurn(<<"350a">>, NoReply, PlainAnswer)
TurnSessions ==
    GuardSessions
    \cup {StoredWithRemovedItem(ListedSession, others) : others \in BOOLEAN}
    \cup {ListedSession, BundleSession, RobotSession, AmpSession}

TurnReplies ==
    {NoReply, ListReply,
     Reply("PRODUCT_LOOKUP", FALSE, "product", "", FALSE),
     Reply("ACCESSORY_LOOKUP", FALSE, "product", "", FALSE)}
\* the utterances of a turn: those of the chat service and one that names a
\* product and an accessory of it
TurnUtterances == Utterances \cup {<<"bec", "cach", "dien">>}

Turn(before, raw, after) ==
    /\ ~call.done
    /\ call' = [done |-> TRUE, raw |-> raw, bulk_threshold |-> NoNumber, before |-> before,
                after |-> after]
    /\ UNCHANGED <<now, store, history, turns, pc, run, arg, order_state0, ctx, inputs, first>>
    /\ UNCHANGED serverVars

NextTurn ==
    /\ ~call.done
    /\ \E session \in TurnSessions, user_message \in TurnUtterances, llm \in LLMAnswers :
           \E raw \in IF RouteOf(StartOf(session, user_message)) = "generator"
                      THEN TurnReplies ELSE {NoReply} :
               Turn(StartOf(session, user_message), raw,
                    TurnEnd(session, user_message, raw, llm))

SpecTurn == Init /\ [][NextTurn]_vars

(***************************************************************************)
(* SessionStore and app.chat for several sessions (session_store.py,       *)
(* app.py).  The chat endpoint is a plain function, so the server runs     *)
(* requests on worker threads: the steps of two requests interleave at the *)
(* calls to the store.  A stored OrderState is kept by identity: writer is *)
(* the request that built the dict, short_memory.id the request that       *)
(* created the nested short_memory dict and short_memory.writer the        *)
(* request that last updated it.  The message lists are kept as the set of *)
(* session ids that have one (the store reads nothing but the keys).       *)
(***************************************************************************)
\* one session fewer than the cap is kept
KeepIds_one_fewer(by_updated_at, cap) == {by_updated_at[i] : i \in 1..(cap - 1)}

\* keep_ids of _prune_sessions: the first max_sessions ids of the summaries sorted
\* by updated_at, most recent first
KeepIds(by_updated_at, cap) == {by_updated_at[i] : i \in 1..cap}

RECURSIVE SortedByUpdatedAt(_, _)
\* sorted(summaries.values(), key=updated_at, reverse=True), as session ids
SortedByUpdatedAt(summary_of, ids) ==
    IF ids = {} THEN <<>>
    ELSE LET latest == CHOOSE s \in ids : \A u \in ids : summary_of[u] <= summary_of[s]
         IN  <<latest>> \o SortedByUpdatedAt(summary_of, ids \ {latest})

Restrict(f, keys) == [k \in DOMAIN f \cap keys |-> f[k]]
Put(f, key, value) == [k \in DOMAIN f \cup {key} |-> IF k = key THEN value ELSE f[k]]

\* nothing is ever removed
prune_sessions_never(cache) == cache

\* _prune_sessions on the three caches
prune_sessions(cache) ==
    IF Cardinality(DOMAIN cache.summaries) <= max_sessions THEN cache
    ELSE LET keep_ids == KeepIds(SortedByUpdatedAt(cache.summaries, DOMAIN cache.summaries),
                                 max_sessions)
             removed == DOMAIN cache.summaries \ keep_ids
         IN  [sessions |-> cache.sessions \ removed,
              summaries |-> Restrict(cache.summaries, keep_ids),
              order_states |-> Restrict(cache.order_states,
                                        DOMAIN cache.order_states \ removed)]

Caches == [sessions |-> sessions, summaries |-> summaries, order_states |-> order_states]

\* the dict {} and an OrderState without a short_memory dict
NoMemory == [id |-> 0, writer |-> 0]
EmptyDict == [writer |-> 0, short_memory |-> NoMemory]
IdleRequest == [pc |-> "idle", turn |-> 0, session_id |-> None, order_state |-> EmptyDict]

\* ensure_session
ensure_session(cache, session_id, timestamp) ==
    IF session_id \in cache.sessions THEN cache
    ELSE prune_sessions(
             [sessions |-> cache.sessions \cup {session_id},
              summaries |-> Put(cache.summaries, session_id, timestamp),
              order_states |-> IF session_id \in DOMAIN cache.order_states
                               THEN cache.order_states
                               ELSE Put(cache.order_states, session_id, EmptyDict)])

\* add_message
add_message(cache, session_id, timestamp) ==
    prune_sessions(
        [sessions |-> cache.sessions \cup {session_id},
         summaries |-> Put(cache.summaries, session_id, timestamp),
         order_states |-> cache.order_states])

\* a request arrives and a free worker thread takes it; session_id is None for a
\* client without a session
Receive(r, session_id) ==
    /\ requests[r].pc = "idle"
    /\ \A q \in Slots : q < r => requests[q].pc # "idle"
    /\ served < MaxRequests
    /\ served' = served + 1
    /\ requests' = [requests EXCEPT ![r] = [pc |-> IF session_id = None THEN "handle_message"
                                                   ELSE "ensure_session",
                                            turn |-> served + 1,
                                            session_id |-> session_id,
                                            order_state |-> EmptyDict]]
    /\ UNCHANGED <<sessions, summaries, order_states, clock, actor>>
    /\ UNCHANGED pipelineVars

\* chat: session_store.ensure_session(session_id)
EnsureSession(r) ==
    /\ requests[r].pc = "ensure_session"
    /\ clock' = clock + 1
    /\ LET cache == ensure_session(Caches, requests[r].session_id, clock')
       IN  /\ sessions' = cache.sessions
           /\ summaries' = cache.summaries
           /\ order_states' = cache.order_states
    /\ actor' = requests[r].session_id
    /\ requests' = [requests EXCEPT ![r].pc = "get_order_state"]
    /\ UNCHANGED served
    /\ UNCHANGED pipelineVars

\* chat: order_state = session_store.get_order_state(session_id), a copy of the
\* outer dict that shares the nested short_memory dict
GetOrderState(r) ==
    /\ requests[r].pc = "get_order_state"
    /\ requests' = [requests EXCEPT
           ![r].pc = "handle_message",
           ![r].order_state = IF requests[r].session_id \in DOMAIN order_states
                              THEN order_states[requests[r].session_id]
                              ELSE EmptyDict]
    /\ actor' = requests[r].session_id
    /\ UNCHANGED <<sessions, summaries, order_states, clock, served>>
    /\ UNCHANGED pipelineVars

\* chat: context = agent.handle_message(...).  A short_memory dict that is there
\* and has not expired is updated in place, wherever it is referenced; otherwise
\* the turn's memory is a new dict.  context.order_state is a new dict.
HandleRequest(r, live) ==
    /\ requests[r].pc = "handle_message"
    /\ LET session_id == IF requests[r].session_id = None THEN NewIds[requests[r].turn]
                         ELSE requests[r].session_id
           memory == requests[r].order_state.short_memory
           in_place == memory.id # 0 /\ live
           turn == requests[r].turn
       IN  /\ order_states' =
                  [t \in DOMAIN order_states |->
                      IF in_place /\ order_states[t].short_memory.id = memory.id
                      THEN [order_states[t] EXCEPT !.short_memory.writer = turn]
                      ELSE order_states[t]]
           /\ requests' =
                  [q \in Slots |->
                      IF q = r
                      THEN [pc |-> "add_user_message", turn |-> turn, session_id |-> session_id,
                            order_state |->
                                [writer |-> turn,
                                 short_memory |-> IF in_place THEN [id |-> memory.id, writer |-> turn]
                                                  ELSE [id |-> turn, writer |-> turn]]]
                      ELSE IF in_place /\ requests[q].order_state.short_memory.id = memory.id
                      THEN [requests[q] EXCEPT !.order_state.short_memory.writer = turn]
                      ELSE requests[q]]
           /\ actor' = session_id
    /\ UNCHANGED <<sessions, summaries, clock, served>>
    /\ UNCHANGED pipelineVars

\* chat: the two session_store.add_message calls
AddMessage(r) ==
    /\ requests[r].pc \in {"add_user_message", "add_assistant_message"}
    /\ clock' = clock + 1
    /\ LET cache == add_message(Caches, requests[r].session_id, clock')
       IN  /\ sessions' = cache.sessions
           /\ summaries' = cache.summaries
           /\ order_states' = cache.order_states
    /\ actor' = requests[r].session_id
    /\ requests' = [requests EXCEPT
           ![r].pc = IF @ = "add_user_message" THEN "add_assistant_message"
                     ELSE "set_order_state"]
    /\ UNCHANGED served
    /\ UNCHANGED pipelineVars

\* chat: session_store.set_order_state(context.session_id, context.order_state);
\* the response is sent
SetOrderState(r) ==
    /\ requests[r].pc = "set_order_state"
    /\ order_states' = Put(order_states, requests[r].session_id, requests[r].order_state)
    /\ actor' = requests[r].session_id
    /\ requests' = [requests EXCEPT ![r] = IdleRequest]
    /\ UNCHANGED <<sessions, summaries, clock, served>>
    /\ UNCHANGED pipelineVars

NextStore ==
    \E r \in Slots :
        \/ \E session_id \in SessionIds \cup {None} : Receive(r, session_id)
        \/ EnsureSession(r)
        \/ GetOrderState(r)
        \/ \E live \in BOOLEAN : HandleRequest(r, live)
        \/ AddMessage(r)
        \/ SetOrderState(r)

SpecStore == Init /\ [][NextStore]_vars

(***************************************************************************)
(* Properties of the turn pipeline (specification Spec).  While the turn   *)
(* runs, ctx.short_memory is the memory the turn started with: only        *)
(* _step_finalize replaces it.                                             *)
(***************************************************************************)
Stages == {"intent_detection", "resource_retrieval", "context_guard", "generation", "finalize"}
Detected == {"resource_retrieval", "context_guard", "generation", "finalize", "done"}
SlotFillOrNegate == {"SLOT_FILL_AMP", "SLOT_FILL_TYPE", "SLOT_FILL_QUANTITY", "NEGATE"}
\* the memory the first run of the current turn started with
StartMemory == normalize_short_memory(order_state0, now)
\* more than the TTL has passed since the turn that wrote the stored memory
StoredMemoryExpired ==
    /\ order_state0.short_memory_ts # NoNumber
    /\ now - order_state0.short_memory_ts[1] > SHORT_MEMORY_TTL_SEC

\* C1: when more than SHORT_MEMORY_TTL_SEC seconds have passed since the session's
\* last completed turn, the short memory every stage of the next turn reads is
\* exactly the default structure.
C1_ExpiredMemoryIsDefault ==
    (pc \in Stages /\ StoredMemoryExpired) => ctx.short_memory = default_short_memory

\* a turn 901 s after a turn that left an anchor and a pending action
C1_Witness ==
    /\ pc = "finalize"
    /\ StoredMemoryExpired
    /\ order_state0.short_memory.pending_action.action # ""
    /\ order_state0.short_memory.last_anchor.sku # ""
    /\ ctx.short_memory = default_short_memory

\* C2: on every turn whose utterance carries an explicit product code, the resolved
\* request has anchor_used false and anchor_sku equal to that code, whatever the
\* memory holds and whatever the dialogue act is.
C2_ExplicitCodeWins ==
    (pc \in Detected /\ parse_user_input(ctx.user_message).skus # <<>>)
    => /\ ~ctx.resolved_request.anchor_used
       /\ ctx.resolved_request.anchor_sku = parse_user_input(ctx.user_message).skus[1]

\* C3: a turn that starts with a pending action and whose dialogue act is
\* SLOT_FILL_AMP, SLOT_FILL_TYPE, SLOT_FILL_QUANTITY or NEGATE ends with no pending
\* action in the short memory: it is neither kept nor created again.
C3_SlotFillOrNegateClears ==
    [][(/\ pc = "finalize"
        /\ ctx.short_memory.pending_action.nonempty
        /\ detect_dialogue_act(ctx.user_message) \in SlotFillOrNegate)
       => ctx'.short_memory.pending_action = EmptyPendingAction]_vars

\* a slot-fill or negation turn that started with a stored bundle offer and ended
\* with none
C3_Witness ==
    /\ pc = "done"
    /\ run = 1
    /\ StartMemory.pending_action.action = "ACCESSORY_BUNDLE_LOOKUP"
    /\ detect_dialogue_act(ctx.user_message) \in SlotFillOrNegate
    /\ ctx.short_memory.pending_action = EmptyPendingAction

IndependentSignal(n) ==
    \/ parse_user_input(n).skus # <<>>
    \/ CODE_RE(n)
    \/ InWords(n, LISTING_RE)
    \/ InWords(n, PRICE_RE)
    \/ InWords(n, RELATED_QUERY_RE)
    \/ detect_product_group(n) # None
    \/ extract_quantity(n) # NoNumber
    \/ AMP_ANY_RE(n)
    \/ is_availability_query(n)

\* C5: a NEW_INTENT turn that starts with a pending action ends with it cleared
\* exactly when the utterance carries an independent signal (its own product code,
\* a listing, price or accessory keyword, a product group, a quantity, an amp or an
\* availability phrase); without one the memory ends with the same pending action.
C5_NewIntentClearsIffSignal ==
    [][(/\ pc = "finalize"
        /\ ctx.short_memory.pending_action.action # ""
        /\ detect_dialogue_act(ctx.user_message) = "NEW_INTENT")
       => /\ ctx'.short_memory.pending_action = EmptyPendingAction
             <=> IndependentSignal(ctx.user_message)
          /\ ~IndependentSignal(ctx.user_message)
             => ctx'.short_memory.pending_action = ctx.short_memory.pending_action]_vars

(***************************************************************************)
(* Properties of intent detection (specification SpecIntent).              *)
(***************************************************************************)
\* the intents whose ladder rule comes before the buy_intent rules
EarlierRuleIntents ==
    {"LIST", "LIST_REQUEST", "ACCESSORY_LOOKUP", "ACCESSORY_BUNDLE_LOOKUP", "SLOT_FILL_AMP",
     "QUANTITY_FOLLOWUP", "PRODUCT_AVAILABILITY"}
\* some rule of the ladder decides the next_action of the decision in context c
HardRuleApplies(c) ==
    \/ c.is_info_only
    \/ c.intent_label \in EarlierRuleIntents
    \/ c.intent_label = "CODE_LOOKUP" /\ ~c.buy_intent
    \/ c.buy_intent /\ "sku" \in c.intent_missing
    \/ c.buy_intent /\ "contact" \in c.intent_missing /\ c.intent_topic # "commercial"
    \/ c.intent_topic = "commercial"
    \/ "tay_robot" \in c.intent_missing
\* the same call with another next_action in the generator's reply
WithProposal(next_action) ==
    step_intent_detection(call.before, [call.raw EXCEPT !.next_action = next_action])
\* the generator asked for the contact form and the session has no contact
CollectContactSignal ==
    /\ call.done
    /\ call.raw.is_dict
    /\ call.raw.collect_contact
    /\ call.before.order_state.contact = ""

\* C6 as stated: a decision with buy_intent and with sku among its missing slots has
\* next_action ASK_FOR_SKU_OR_GROUP, whatever the generator proposed and whatever
\* the intent is.
C6_BuyMissingSkuAsks ==
    (call.done /\ call.after.buy_intent /\ "sku" \in call.after.intent_missing)
    => call.after.next_action = "ASK_FOR_SKU_OR_GROUP"

\* C6: a decision with buy_intent and with sku among its missing slots has
\* next_action ASK_FOR_SKU_OR_GROUP whatever the generator proposed, unless it is
\* informational-only or its intent is one an earlier rule of the ladder answers
\* (LIST, LIST_REQUEST, ACCESSORY_LOOKUP, ACCESSORY_BUNDLE_LOOKUP, SLOT_FILL_AMP,
\* QUANTITY_FOLLOWUP, PRODUCT_AVAILABILITY).
C6_BuyMissingSkuAsksUnlessEarlierRule ==
    (/\ call.done
     /\ call.after.buy_intent
     /\ "sku" \in call.after.intent_missing
     /\ ~call.after.is_info_only
     /\ call.after.intent_label \notin EarlierRuleIntents)
    => call.after.next_action = "ASK_FOR_SKU_OR_GROUP"

\* the generator proposed the contact form for a buying turn without a sku
C6_Witness ==
    /\ call.done
    /\ call.raw.is_dict
    /\ call.raw.next_action = "REQUEST_CONTACT_FORM"
    /\ call.after.buy_intent
    /\ "sku" \in call.after.intent_missing
    /\ ~call.after.is_info_only
    /\ call.after.intent_label \notin EarlierRuleIntents
    /\ call.after.next_action = "ASK_FOR_SKU_OR_GROUP"

\* C7: on every route of intent detection, and whatever the generator replies (no
\* reply, an empty or an unknown next_action), the next_action of the decision is
\* one of the five allowed actions.
C7_NextActionAllowed ==
    call.done => call.after.next_action \in AllowedActions

\* an unknown proposal that no rule of the ladder replaced
C7_Witness ==
    /\ call.done
    /\ call.raw.is_dict
    /\ call.raw.next_action = "ESCALATE"
    /\ ~call.raw.collect_contact
    /\ ~HardRuleApplies(call.after)
    /\ call.after.next_action = "ANSWER_ONLY"

C9_CollectContactFirst ==
    CollectContactSignal => call.after.next_action = "REQUEST_CONTACT_FORM"

\* C9: a collect-contact signal with no contact on file gives REQUEST_CONTACT_FORM
\* when no rule of the ladder applies to the decision, and when the intent is
\* QUANTITY_FOLLOWUP; the signal replaces the generator's proposal, and every rule
\* of the ladder wins over it.
C9_CollectContactLast ==
    (/\ CollectContactSignal
     /\ \/ ~HardRuleApplies(call.after)
        \/ call.after.intent_label = "QUANTITY_FOLLOWUP")
    => call.after.next_action = "REQUEST_CONTACT_FORM"

\* the signal replaced another proposal and no rule applied
C9_Witness ==
    /\ CollectContactSignal
    /\ call.raw.next_action = "answer_only"
    /\ ~HardRuleApplies(call.after)
    /\ call.after.next_action = "REQUEST_CONTACT_FORM"

(***************************************************************************)
(* Replay (specification Spec): first is the context the first run of the  *)
(* turn returned, ctx the context of the second run.                       *)
(***************************************************************************)
DecisionOf(c) ==
    [intent |-> c.intent_label, buy_intent |-> c.buy_intent, info_only |-> c.is_info_only,
     topic |-> c.intent_topic, entities |-> c.intent_entities, missing |-> c.intent_missing,
     next_action |-> c.next_action]
FlagsOf(c) ==
    [should_ask_type |-> c.should_ask_type, should_show_form |-> c.should_show_form,
     should_remind_contact |-> c.should_remind_contact,
     should_render_products |-> c.should_render_products,
     is_asking_price |-> c.is_asking_price, is_asking_related |-> c.is_asking_related,
     is_availability_query |-> c.is_availability_query, is_close_intent |-> c.is_close_intent]

\* C10: running the same turn twice on the same starting order_state, with the same
\* generator outputs and clock, gives the same decision and the same context flags,
\* and the first run leaves the starting order_state, short memory included, as it
\* was.
C10_ReplayIsIdempotent ==
    /\ (pc = "done" /\ run = 1) => arg = order_state0
    /\ (pc = "done" /\ run = 2)
       => DecisionOf(ctx) = DecisionOf(first) /\ FlagsOf(ctx) = FlagsOf(first)

\* C11: while a turn is processed, the OrderState the store holds for the session
\* (what another reader of the store sees) does not change; it changes only by the
\* whole-state write app.chat makes once handle_message has returned.  No stage
\* updates the store's cached state or its embedded short memory in place.
C11_StoreWrittenOnlyAtTurnEnd == [][store' # store => pc = "done"]_vars

C13_GeneratorFailureTolerated ==
    /\ [][pc = "intent_detection" /\ inputs'.raw.raises
          => /\ pc' = "resource_retrieval"
             /\ ctx' = step_intent_detection(ctx, NoReply)]_vars
    /\ [](pc = "done" /\ run = 1 /\ (inputs.llm.raises \/ inputs.llm.empty)
          => /\ ~IsEmptyAnswer(ctx.answer)
             /\ ctx.answer.body \in {"exception", "fallback", "quantity_fixed", "repeat_block"}
             /\ ctx.order_state.short_memory.updated_at = Some(now)
             /\ ctx.order_state.short_memory.last_intent = ctx.intent_label)

\* a turn in which the intent call raised and the answer call returned an empty
\* text has ended with the fallback sentence
C13_Witness ==
    /\ pc = "done"
    /\ run = 1
    /\ inputs.raw.raises
    /\ inputs.llm.empty
    /\ ctx.answer.body = "fallback"
    /\ ctx.order_state.short_memory.updated_at = Some(now)

\* C14: a turn is not aborted by an exception (a failure to load the catalogue
\* included): once started it runs through its stages to the end.
C14_TurnNeverAborts == pc # "raised"


\* the utterance carries no explicit product code
NoExplicitCode(n) == parse_user_input(n).skus = <<>> /\ extract_codes(n) = <<>>
\* the products the session state and the stored messages held when the turn started
ProductsBefore ==
    (SeqSet(order_state0.last_context_codes)
     \cup {order_state0.selected_sku}
     \cup UNION {SeqSet(history[i].context_codes) : i \in 1..Len(history)}) \ {""}

\* C15: after the short memory has expired by TTL, a turn that carries no explicit
\* code resolves no anchor, and the short memory written at the end of the turn does
\* not anchor a product of the session from before the expiry (as stated: its
\* last_anchor is empty).
C15_ExpiredMemoryLeavesNoAnchor ==
    (pc = "done" /\ run = 1 /\ StoredMemoryExpired /\ NoExplicitCode(ctx.user_message))
    => /\ ctx.resolved_request.anchor_sku = ""
       /\ ctx.order_state.short_memory.last_anchor.sku \notin ProductsBefore


\* the turn's resolved request was computed and no pending action was affirmed
ForcedWithoutPending ==
    /\ pc \in Detected
    /\ run = 1
    /\ ~TakePendingAction(ctx.user_message, StartMemory.pending_action)
\* the utterance is a bundle or accessory request
BundleRequest ==
    \/ ctx.resolved_request.required_parts # <<>>
    \/ ctx.resolved_request.expand_bundle
    \/ ctx.resolved_request.bundle_hint
\* the utterance itself carries an amp or a robot/hand slot
UtteranceSlot ==
    \/ parse_user_input(ctx.user_message).amp # ""
    \/ parse_user_input(ctx.user_message).is_robot # None
\* the utterance or the memory (last_user_constraints.amp, last_anchor.is_robot)
\* gives an amp or a robot/hand slot
ResolvedSlot ==
    \/ ctx.resolved_request.line_amp # ""
    \/ ctx.resolved_request.is_robot # None
ForcedAsBundle ==
    /\ BundleRequest
    /\ ctx.resolved_request.anchor_sku # ""
    /\ ctx.resolved_request.force_intent = "ACCESSORY_BUNDLE_LOOKUP"
ForcedAsLastIntent ==
    /\ ctx.resolved_request.anchor_sku # ""
    /\ StartMemory.last_intent \in TECHNICAL_INTENTS
    /\ ctx.resolved_request.force_intent = StartMemory.last_intent

\* C16 as stated: without an affirmed pending action a forced intent is emitted only
\* for an utterance that is not a listing query and that is (a) a bundle request with
\* a resolved anchor, forced to ACCESSORY_BUNDLE_LOOKUP, or (b) carries an amp or
\* robot/hand slot, with a resolved anchor and a technical last intent, forced to that
\* last intent; an utterance with neither a bundle request nor such a slot is not forced.
C16_ForcedOnlyByUtteranceSlots ==
    ForcedWithoutPending
    => /\ ctx.resolved_request.force_intent # ""
          => /\ ~InWords(ctx.user_message, LISTING_RE)
             /\ ForcedAsBundle \/ (UtteranceSlot /\ ForcedAsLastIntent)
       /\ (~BundleRequest /\ ~UtteranceSlot) => ctx.resolved_request.force_intent = ""

\* C16: the same with the slot of (b) taken from the resolved request, which holds
\* the utterance's amp or type if it has one and otherwise the amp of the memory's
\* last_user_constraints and the is_robot of its last_anchor; a quantity message is
\* never forced.
C16_ForcedOnlyByResolvedSlots ==
    ForcedWithoutPending
    => /\ ctx.resolved_request.force_intent # ""
          => /\ ~InWords(ctx.user_message, LISTING_RE)
             /\ ~is_pure_quantity_message(ctx.user_message)
             /\ ~is_quantity_followup_message(ctx.user_message)
             /\ ForcedAsBundle \/ (ResolvedSlot /\ ForcedAsLastIntent)
       /\ (~BundleRequest /\ ~ResolvedSlot) => ctx.resolved_request.force_intent = ""

\* a short follow-up that names no amp and no type is forced to the last intent,
\* its slot coming from the memory's last anchor
C16_Witness ==
    /\ ForcedWithoutPending
    /\ ~BundleRequest
    /\ ~UtteranceSlot
    /\ ForcedAsLastIntent


\* what the turn resolves of its own: the resolved request of the same utterance and
\* memory without the pending action
OwnResolved ==
    resolve_request_with_memory(ctx.user_message, parse_user_input(ctx.user_message),
                                [StartMemory EXCEPT !.pending_action = EmptyPendingAction])

\* C17: when an AFFIRM takes up a pending action, each of anchor_sku, product_group,
\* required_parts and the constraints that the turn resolved a value for keeps that
\* value; the pending action's value goes only where the turn resolved none.
C17_PendingOnlyFillsGaps ==
    (/\ pc \in Detected
     /\ run = 1
     /\ TakePendingAction(ctx.user_message, StartMemory.pending_action))
    => /\ OwnResolved.anchor_sku # ""
          => ctx.resolved_request.anchor_sku = OwnResolved.anchor_sku
       /\ OwnResolved.product_group # ""
          => ctx.resolved_request.product_group = OwnResolved.product_group
       /\ OwnResolved.required_parts # <<>>
          => ctx.resolved_request.required_parts = OwnResolved.required_parts
       /\ \A key \in DOMAIN OwnResolved.constraints :
             OwnResolved.constraints[key] # ""
             => ctx.resolved_request.constraints[key] = OwnResolved.constraints[key]


\* the forced intent the resolver gives for the message of the context
ForcedIntentOf(context) ==
    resolve_request_with_memory(context.user_message, parse_user_input(context.user_message),
                                context.short_memory).force_intent
\* one of the six deterministic routes matches the message of the context
SomeRouteMatches(context) ==
    \/ is_ask_selling_scope(context.user_message)
    \/ is_type_only_message(context.user_message)
    \/ is_amp_only_message(context.user_message)
    \/ is_pure_quantity_message(context.user_message)
    \/ is_quantity_followup_message(context.user_message)
    \/ ForcedIntentOf(context) # ""
    \/ is_tech_product_inquiry(context.user_message)
    \/ is_technical_lookup(context.user_message)
\* the intent of the first route that matches, in the fixed order
FirstRouteIntent(context) ==
    LET n == context.user_message
    IN  IF is_ask_selling_scope(n) THEN "ASK_SELLING_SCOPE"
        ELSE IF is_type_only_message(n)
        THEN (IF context.short_memory.pending_action.action # ""
              THEN context.short_memory.pending_action.action ELSE "TYPE_SWITCH")
        ELSE IF is_amp_only_message(n) THEN "SLOT_FILL_AMP"
        ELSE IF is_pure_quantity_message(n) \/ is_quantity_followup_message(n)
        THEN "QUANTITY_FOLLOWUP"
        ELSE IF ForcedIntentOf(context) # "" THEN ForcedIntentOf(context)
        ELSE "PRODUCT_LOOKUP"

\* C18: the routes are tried in the order selling-scope, type-only, amp-only,
\* quantity, forced intent, technical query; when one of them matches, the intent
\* the step decides is that of the first one that matches and the step ends the same
\* whatever the generator would answer (it is not consulted).
C18_FirstMatchingRouteDecides ==
    [][(pc = "intent_detection" /\ run = 1 /\ SomeRouteMatches(ctx))
       => /\ ctx'.intent_label = FirstRouteIntent(ctx)
          /\ \A raw \in Replies : step_intent_detection(ctx, IntentText(raw).raw) = ctx']_vars

\* a type-only message that also has a forced intent has been decided by the
\* type-only route
C18_Witness ==
    /\ pc = "resource_retrieval"
    /\ run = 1
    /\ is_type_only_message(ctx.user_message)
    /\ ctx.resolved_request.force_intent \notin {"", "TYPE_SWITCH"}
    /\ ctx.intent_label = "TYPE_SWITCH"


\* C19: on the generator path the hard rules are applied to the merged decision, so
\* that a decision with next_action ASK_FOR_SKU_OR_GROUP has sku in its missing set
\* and the turn has resolved no anchor.
C19_AskForSkuOnlyWithoutAnchor ==
    (/\ call.done
     /\ RouteOf(call.before) = "generator"
     /\ call.after.next_action = "ASK_FOR_SKU_OR_GROUP")
    => /\ call.after.missing_sku
       /\ call.after.resolved_request.anchor_sku = ""

\* the decision parse_intent_output returns on the generator path, before
\* merge_decision_with_resolved
GeneratorDecision(context, raw) ==
    LET n == context.user_message
    IN  Let(resolve_request_with_memory(n, parse_user_input(n), context.short_memory), LAMBDA resolved :
        parse_intent_output(raw, n,
                            [has_contact_info |-> FALSE,
                             has_asked_type |-> HistoryAskedType(context.chat_history)],
                            apply_resolved_to_order_state(context.order_state, resolved)))

\* C20: on the generator path the merge with the ResolvedRequest only fills entity
\* fields the generator's decision left empty: a sku list, product group, amp,
\* robot/hand type or list of required parts the decision has is the one the turn
\* ends with.
C20_MergeOnlyFillsEmptyEntities ==
    (call.done /\ RouteOf(call.before) = "generator")
    => LET set == GeneratorDecision(call.before, call.raw).entities
           final == call.after.intent_entities
       IN  /\ set.skus # <<>> => final.skus = set.skus
           /\ set.product_group # "" => final.product_group = set.product_group
           /\ set.amp # "" => final.amp = set.amp
           /\ set.is_robot = "True" => final.is_robot = "True"
           /\ set.is_hand = "True" => final.is_hand = "True"
           /\ set.required_categories # <<>>
                  => final.required_categories = set.required_categories

\* C21: a decision whose intent is LIST, ACCESSORY_BUNDLE_LOOKUP or SLOT_FILL_AMP
\* never has tay_robot in its missing set.
C21_TypeNeverMissingForListing ==
    (call.done /\ call.after.intent_label \in {"LIST", "ACCESSORY_BUNDLE_LOOKUP", "SLOT_FILL_AMP"})
    => "tay_robot" \notin call.after.intent_missing

\* the utterance carries a product code, a listing keyword, a price keyword or a
\* product group
CarriesProductSignal(n) ==
    \/ CODE_RE(n) \/ D_CODE_RE(n) \/ P_CODE_RE(n) \/ NUM_CODE_RE(n)
    \/ InWords(n, LISTING_RE)
    \/ InWords(n, PRICE_RE)
    \/ detect_product_group(n) # None

\* C22: an utterance that carries a product code, a listing keyword, a price keyword
\* or a product group is never classified as a slot-fill reply.
C22_ProductSignalNeverSlotFill ==
    (call.done /\ CarriesProductSignal(call.before.user_message))
    => detect_dialogue_act(call.before.user_message)
           \notin {"SLOT_FILL_AMP", "SLOT_FILL_TYPE", "SLOT_FILL_QUANTITY"}

\* the quantity the turn has resolved: the session's, else the decision's
TurnQuantity(context) ==
    IF context.order_state.quantity # NoNumber THEN context.order_state.quantity
    ELSE context.intent_entities.quantity
AtOrAboveThreshold(c) ==
    /\ c.bulk_threshold # NoNumber
    /\ TurnQuantity(c.after) # NoNumber
    /\ TurnQuantity(c.after)[1] >= c.bulk_threshold[1]

\* C23 as stated: whenever the turn's quantity is at or above the bulk threshold,
\* request_contact is true at the end of ContextGuard.
C23_BulkQuantityRequestsContact ==
    (call.done /\ AtOrAboveThreshold(call)) => call.after.request_contact

\* C23: whenever the bulk threshold is positive and the turn's quantity is at or
\* above it, request_contact is true at the end of ContextGuard, whatever the
\* intent, next_action and other flags of the turn.
C23_PositiveThresholdRequestsContact ==
    (call.done /\ AtOrAboveThreshold(call) /\ call.bulk_threshold # Some(0))
    => call.after.request_contact

C23_Witness ==
    /\ call.done
    /\ call.bulk_threshold = Some(100)
    /\ TurnQuantity(call.after) = Some(100)
    /\ call.after.intent_label = "QUANTITY_FOLLOWUP"
    /\ ~call.before.request_contact
    /\ call.after.request_contact

\* the contact form was shown earlier in the session
FormShownBefore(context) ==
    HistoryAskedForm(context.chat_history) \/ context.order_state.asked_contact_form

\* no word of the utterance is a number
NoDigits(n) == \A i \in 1..Len(n) : DigitLen(n[i]) = 0

\* C24: once the contact form has been shown and contact is still missing, a later
\* AFFIRM reply without contact digits keeps has_contact_info false and does not
\* set should_show_form again.
C24_AffirmDoesNotShowFormAgain ==
    (/\ call.done
     /\ FormShownBefore(call.before)
     /\ call.before.order_state.contact = ""
     /\ detect_dialogue_act(call.before.user_message) = "AFFIRM"
     /\ NoDigits(call.before.user_message))
    => /\ ~call.after.has_contact_info
       /\ ~call.after.should_show_form

\* the turn is a price or availability query, by its text or by its flags
PriceOrAvailability(context) ==
    \/ context.is_asking_price
    \/ context.is_availability_query
    \/ InWords(context.user_message, PRICE_RE)
    \/ is_availability_query(context.user_message)

\* C25: at the end of ContextGuard should_show_form is false on every turn whose
\* next_action is ASK_FOR_SKU_OR_GROUP and on every price or availability query.
C25_NoFormWhenAskingSkuOrPriced ==
    (/\ call.done
     /\ \/ call.after.next_action = "ASK_FOR_SKU_OR_GROUP"
        \/ PriceOrAvailability(call.after))
    => ~call.after.should_show_form

\* the contact reminders recorded in the history since the form was last shown
RemindersSinceForm(context) ==
    ReminderCount(context.chat_history, Len(context.chat_history))

C27_NoTypeQuestionForLookupIntents ==
    (/\ call.done
     /\ call.after.intent_label \in {"LIST", "PRODUCT_LOOKUP", "ACCESSORY_LOOKUP",
                                     "ACCESSORY_BUNDLE_LOOKUP", "TYPE_SWITCH", "CODE_LOOKUP"})
        => ~call.after.should_ask_type

\* C28: at the end of ContextGuard should_render_products is false on every turn
\* whose next_action is ASK_FOR_SKU_OR_GROUP, REQUEST_CONTACT_FORM or
\* COMMERCIAL_NEUTRAL_REPLY.
C28_NoProductsWhenAskingOrHandingOff ==
    (/\ call.done
     /\ call.after.next_action \in {"ASK_FOR_SKU_OR_GROUP", "REQUEST_CONTACT_FORM",
                                    "COMMERCIAL_NEUTRAL_REPLY"})
        => ~call.after.should_render_products

\* the fields of the OrderState that describe the order
OrderFields(state) ==
    <<state.selected_sku, state.selected_group, state.quantity, state.hand_or_robot,
      state.contact>>

\* C29: ContextGuard only derives flags: it leaves the OrderState (selected_sku,
\* selected_group, quantity, hand_or_robot, contact) and the entities of the
\* IntentDecision exactly as they were before it ran.
C29_ContextGuardOnlyDerivesFlags ==
    call.done
        => /\ OrderFields(call.after.order_state) = OrderFields(call.before.order_state)
           /\ call.after.intent_entities = call.before.intent_entities

\* C30: the is_close_intent flag that ContextGuard produces equals buy_intent or
\* a close-intent keyword in the message or is_asking_price, on the final values
\* of those flags for the turn.
C30_CloseIntentFromFinalFlags ==
    call.done
        => (call.after.is_close_intent
              <=> \/ call.after.buy_intent
                  \/ InWords(call.after.user_message, CLOSE_INTENT_RE)
                  \/ call.after.is_asking_price)

\* the turn affirms a stored pending action whose anchor the catalogue does not list
AffirmsRemovedAnchor(context) ==
    /\ TakePendingAction(context.user_message, context.short_memory.pending_action)
    /\ context.short_memory.pending_action.anchor_sku # ""
    /\ ~InCatalog(context.short_memory.pending_action.anchor_sku)

\* C31: if an affirmed pending action names an anchor_sku that matches no catalog
\* item, the turn completes and is handled as having no anchor: no other product
\* is taken as the anchor of the lookup.
C31_RemovedAnchorMeansNoAnchor ==
    (call.done /\ AffirmsRemovedAnchor(call.before))
        => call.after.items = <<>>

\* the pending request stored when the turn started, the one stored when it ended
\* and the parts the turn required
PrevPending == call.before.short_memory.pending_request
NewPending == call.after.short_memory.pending_request
TurnRequired == call.after.intent_entities.required_categories
FoundNow == {part \in SeqSet(TurnRequired) :
                part \notin SeqSet(call.after.intent_entities.missing_categories)}
NarrowerBundleTurn ==
    /\ call.done
    /\ call.after.intent_label = "ACCESSORY_BUNDLE_LOOKUP"
    /\ PrevPending.required_parts # <<>>
    /\ SeqSet(TurnRequired) \subseteq SeqSet(PrevPending.required_parts)

\* C32: on an ACCESSORY_BUNDLE_LOOKUP turn whose required parts are a subset of the
\* previously pending required set, the new pending_request keeps the previous set
\* as required_parts, done_parts holds every previously done part plus every
\* required part not missing on this turn, and todo_parts is required_parts minus
\* done_parts: the two are disjoint and a done part does not return to todo.
C32_BundleProgressIsKept ==
    NarrowerBundleTurn
        => /\ NewPending.required_parts = PrevPending.required_parts
           /\ SeqSet(NewPending.done_parts) = SeqSet(PrevPending.done_parts) \cup FoundNow
           /\ NewPending.todo_parts
                  = SelectSeq(NewPending.required_parts,
                              LAMBDA part : part \notin SeqSet(NewPending.done_parts))
           /\ SeqSet(NewPending.todo_parts) \cap SeqSet(NewPending.done_parts) = {}
           /\ SeqSet(NewPending.todo_parts) \cap SeqSet(PrevPending.done_parts) = {}

\* a bundle turn after one that had found a part, with that part missing now
C32_Witness ==
    /\ NarrowerBundleTurn
    /\ PrevPending.done_parts # <<>>
    /\ TurnRequired # <<>>
    /\ SeqSet(PrevPending.done_parts) \ FoundNow # {}
    /\ SeqSet(PrevPending.done_parts) \subseteq SeqSet(NewPending.done_parts)

OldAction == call.before.short_memory.pending_action
NewAction == call.after.short_memory.pending_action
\* the turn ends with a pending action that was not there when it began
PendingActionCreated == call.done /\ NewAction.nonempty /\ NewAction # OldAction
\* the item the turn is about: the one update_short_memory_from_context stores as last_anchor
TurnAnchor ==
    IF call.after.items # <<>> THEN call.after.items[1]
    ELSE IF call.after.display_items # <<>> THEN call.after.display_items[1]
    ELSE call.after.order_state.selected_sku
\* C33: a pending action is created or replaced at the end of a turn only if
\* the resolver did not signal clearance, the intent is a technical one, the
\* contact form was not shown, the turn is neither a price nor an availability
\* turn and the answer holds an accessory invitation; the new action is
\* anchored on the turn's anchor and lists the default bundle categories
\* without the anchor's own category.
C33_PendingActionOnlyAfterInvite ==
    PendingActionCreated =>
        /\ ~call.after.resolved_request.clear_pending_action
        /\ call.after.intent_label \in TECHNICAL_INTENTS
        /\ ~call.after.should_show_form
        /\ ~call.after.is_asking_price
        /\ ~call.after.is_availability_query
        /\ call.after.answer.invite
        /\ NewAction.action = "ACCESSORY_BUNDLE_LOOKUP"
        /\ NewAction.anchor_sku = TurnAnchor
        /\ NewAction.required_parts
            = SelectSeq(DEFAULT_BUNDLE_CATEGORIES,
                        LAMBDA part : part # Item(NewAction.anchor_sku).group)

OldAmp == call.before.short_memory.last_user_constraints.amp
NewAmp == call.after.short_memory.last_user_constraints.amp
\* C34: the amp of last_user_constraints is overwritten at the end of a turn
\* only if the utterance of the turn holds an amp pattern; on every other turn
\* the stored amp is carried forward unchanged.
C34_AmpKeptWithoutAmpPattern ==
    (call.done /\ ~AMP_ANY_RE(call.after.user_message)) => NewAmp = OldAmp
\* a turn without an amp pattern whose entities hold an amp other than the stored one
C34_Witness ==
    /\ call.done
    /\ ~AMP_ANY_RE(call.after.user_message)
    /\ call.after.intent_entities.amp # ""
    /\ call.after.intent_entities.amp # OldAmp
    /\ NewAmp = OldAmp

\* the codes shown by the assistant message just before the turn
PrecedingCodes ==
    IF call.before.chat_history = <<>> THEN <<>>
    ELSE call.before.chat_history[Len(call.before.chat_history)].context_codes
\* the items the turn found: matched and related
FoundItems == SeqSet(call.after.items) \cup SeqSet(call.after.related_items)
AsksToRepeat == InWords(call.after.user_message, REPEAT_REQUEST_RE)

\* C35: an item is dropped from the display set of the turn if and only if its
\* code was shown in the assistant turn just before and the user did not ask to
\* repeat; items shown only in older turns are kept; this holds on every
\* retrieval route.
C35_DroppedIffShownJustBefore ==
    (call.done /\ call.after.should_render_products) =>
        \A code \in FoundItems :
            code \notin SeqSet(call.after.display_items)
                <=> (code \in SeqSet(PrecedingCodes) /\ ~AsksToRepeat)

\* a turn ends with should_ask_type true and app.chat stores its order state
AskedTurnStored == pc = "done" /\ pc' = "idle" /\ ctx.should_ask_type
\* ContextGuard ends on a turn of a session whose stored state says the question was asked
GuardAfterAsked == pc = "context_guard" /\ pc' = "generation" /\ store.asked_hand_robot

\* C36: within a session the hand-or-robot question is flagged on at most one
\* turn: a turn that ends with should_ask_type true stores asked_hand_robot as
\* true, the stored flag stays true from then on, and on every later turn
\* should_ask_type is false at the end of ContextGuard.
C36_TypeQuestionAtMostOnce ==
    [][/\ AskedTurnStored => store'.asked_hand_robot
       /\ store.asked_hand_robot => store'.asked_hand_robot
       /\ GuardAfterAsked => ~ctx'.should_ask_type]_vars
\* the second turn of a session whose first turn flagged the question is past ContextGuard
C36_Witness ==
    /\ pc = "generation"
    /\ turns = 1
    /\ store.asked_hand_robot
    /\ ctx.next_action = "ASK_HAND_VS_ROBOT_ONCE"
    /\ ~InWords(ctx.user_message, TYPE_ANSWER_RE)
    /\ ~ctx.should_ask_type

\* a step of add_message or ensure_session: both read the clock
StoreWrite == clock' # clock
\* the sessions the step removed
Pruned == DOMAIN summaries \ DOMAIN summaries'

C38_OrderStatesOnlyForSessions ==
    /\ DOMAIN order_states \subseteq DOMAIN summaries
    /\ DOMAIN order_states \subseteq sessions
    /\ Cardinality(DOMAIN order_states) <= max_sessions
====
